---- MODULE Spec2Model ----
(***************************************************************************)
(* A model of sapimclient's Tenant client (src/src/sapimclient/client.py). *)
(*                                                                         *)
(* One caller drives one Tenant: it calls an operation (create, update,    *)
(* delete, read, read_seq, read_all, read_first, run_pipeline or           *)
(* cancel_pipeline), the operation sends requests, the server answers each *)
(* of them in any way it likes,                                            *)
(* and the operation turns the answers into a return value or a raised     *)
(* exception.  Strings are sequences of tokens, so that Python's           *)
(* `code in message` is a real substring test; JSON objects are functions  *)
(* from keys to values.  A second specification ranges over the page sizes *)
(* of a listing, a third one interleaves two listings of the same Tenant.  *)
(***************************************************************************)
EXTENDS Integers, Sequences, FiniteSets, TLC

VARIABLES
    pc,         \* where the caller is: "idle", "gen_created", "await",
                \* "handle", "gen_yielded" or "done"
    op,         \* the operation in progress and its arguments
    req,        \* the request the operation is sending: method, uri, params, json
    attempt,    \* the attempt of retry() the request is in
    sent,       \* every request handed to the HTTP session so far, in order
    returned,   \* every body _request returned to the operation so far
    response,   \* the exchange that answered the last request
    outcome,    \* what Tenant._request made of that exchange
    failures,   \* how many exchanges of the operation ended without a response
    result,     \* how the operation ended: a returned value or a raised exception
    served,     \* read_all: the item lists of the pages accepted so far
    items,      \* read_all: the item list of the page being iterated
    idx,        \* read_all: how many items of that page were taken
    yielded     \* read_all: the resources yielded to the consumer so far

vars == <<pc, op, req, attempt, sent, returned, response, outcome, failures,
          result, served, items, idx, yielded>>

-----------------------------------------------------------------------------
(* Values standing for Python's None, one per shape of value. *)

None == <<"<None>">>
NoMsg == None
NoName == "<None>"
NoBody == [nobody |-> TRUE]
NoValue == [novalue |-> TRUE]
NoParams == [noparams |-> TRUE]
NoOp == [name |-> NoName]
NoReq == [method |-> NoName]
NoResponse == [transport |-> NoName]
NoOutcome == [kind |-> NoName]

-----------------------------------------------------------------------------
(* Strings as token sequences. *)

\* Python's `needle in haystack` on strings.
Contains(needle, haystack) ==
    \E i \in 1..(Len(haystack) - Len(needle) + 1) :
        SubSeq(haystack, i, i + Len(needle) - 1) = needle

\* Python's truthiness of an optional string: neither None nor ''.
Truthy(s) == s # None /\ s # << >>

\* dict.get(key): the value, or None when the key is absent.
Get(d, key) == IF key \in DOMAIN d THEN d[key] ELSE None

\* The key of a JSON object that a string of one token names.
Key(s) == s[1]

\* str.split('/')[-1]: the tokens after the last "/".
RECURSIVE LastSegment(_)
LastSegment(s) ==
    IF \E i \in 1..Len(s) : s[i] = "/"
    THEN LastSegment(Tail(s))
    ELSE s

-----------------------------------------------------------------------------
(* Constants of client.py. *)

STATUS_NOT_MODIFIED == 304
MIN_PAGE_SIZE == 1
MAX_PAGE_SIZE == 100
DEFAULT_PAGE_SIZE == 10
CONTENT_TYPE_JSON == "application/json"

ATTR_ERROR == "_ERROR_"
ATTR_EXPAND == "expand"
ATTR_FILTER == "$filter"
ATTR_ORDERBY == "orderBy"
ATTR_NEXT == "next"
ATTR_TOP == "top"
ERROR_ALREADY_EXISTS == <<"TCMP_35004">>
ERROR_DELETE_PIPELINE == <<"TCMP_60255">>
ERROR_MISSING_FIELD == <<"TCMP_1002">>

Methods == {"GET", "POST", "PUT", "DELETE"}

\* Variant: PUT accepts 201 as POST does.
REQUIRED_STATUS_PutCreated ==
    [m \in Methods |-> IF m \in {"POST", "PUT"} THEN {200, 201} ELSE {200}]

REQUIRED_STATUS ==
    [m \in Methods |-> IF m = "POST" THEN {200, 201} ELSE {200}]

-----------------------------------------------------------------------------
(* Exceptions (exceptions.py) and the ways an operation ends. *)

Return(v) ==
    [kind |-> "return", exc |-> NoName, msg |-> NoMsg, data |-> NoBody,
     value |-> v, trace |-> << >>]

\* exc(msg), with the payload the exception carries or formats into its text.
Raise(exc, msg, data) ==
    [kind |-> "raise", exc |-> exc, msg |-> msg, data |-> data,
     value |-> NoValue, trace |-> << >>]

SAPConnectionError(msg) == Raise("SAPConnectionError", msg, NoBody)
SAPNotModifiedError == Raise("SAPNotModifiedError", NoMsg, NoBody)
SAPResponseError(msg, payload) == Raise("SAPResponseError", msg, payload)
SAPBadRequestError(msg, data) == Raise("SAPBadRequestError", msg, data)
SAPAlreadyExistsError(msg) == Raise("SAPAlreadyExistsError", msg, NoBody)
SAPMissingFieldError(fields) ==
    Raise("SAPMissingFieldError", <<"Missing Required Field(s)">>, fields)
SAPNotFoundError(value) ==
    Raise("SAPNotFoundError", value \o <<" not found.">>, NoBody)
SAPDeleteFailedError(reason) == Raise("SAPDeleteFailedError", reason, NoBody)

-----------------------------------------------------------------------------
(* Resources: the typed records and their wire form. *)

\* MockResource is the resource type of the client's tests; SalesTransaction
\* is the type read_all treats specially.
Classes == {"MockResource", "SalesTransaction"}

\* The endpoint of model.Pipeline and of every pipeline job.
pipeline_attr_endpoint == <<"api", "/", "v2", "/", "pipelines">>

\* The wire alias of Pipeline.pipeline_run_seq.
pipeline_attr_seq_alias == "pipelineRunSeq"

attr_endpoint(cls) ==
    IF cls = "SalesTransaction"
    THEN <<"api", "/", "v2", "/", "salesTransactions">>
    ELSE IF cls = "Pipeline"
    THEN pipeline_attr_endpoint
    ELSE <<"api", "/", "v2", "/", "eggs">>

\* The wire alias of the field that holds the unique identifier.
attr_seq_alias(cls) ==
    IF cls = "SalesTransaction" THEN "salesTransactionSeq"
    ELSE IF cls = "Pipeline" THEN pipeline_attr_seq_alias
    ELSE "eggSeq"

\* The field a record of the type cannot be built without.
attr_required(cls) == IF cls = "Pipeline" THEN "command" ELSE "name"

\* The relation fields a type declares (resource_cls.expands()), each with its
\* wire alias or without one.
expands(cls) ==
    IF cls = "SalesTransaction"
    THEN <<[alias |-> "eventType"], [alias |-> NoName], [alias |-> "unitType"]>>
    ELSE << >>

\* resource.attr_endpoint.split('/')[-1], as one key.
attr_resource(cls) == LastSegment(attr_endpoint(cls))[1]

Seqs == {None, << >>, <<"123">>}
Names == {<<"spamm">>}
Resources == [cls : Classes, seq : Seqs, name : Names]

\* Variant: the fields that are None are dumped too.
model_dumpWithNone(resource) ==
    [k \in {"name", attr_seq_alias(resource.cls)}
        |-> IF k = "name" THEN resource.name ELSE resource.seq]

\* resource.model_dump(mode='json', by_alias=True, exclude_none=True)
model_dump(resource) ==
    [k \in {"name"} \cup
            (IF resource.seq # None THEN {attr_seq_alias(resource.cls)} ELSE {})
        |-> IF k = "name" THEN resource.name ELSE resource.seq]

\* cls(**data) succeeds when every required field is present.
Valid(cls, data) == attr_required(cls) \in DOMAIN data

\* Variant: the identifier is looked for under its field name, not its alias.
DecodeByFieldName(cls, data) ==
    IF cls = "Pipeline"
    THEN [cls |-> cls, seq |-> Get(data, "pipeline_run_seq"),
          command |-> data["command"]]
    ELSE [cls |-> cls, seq |-> Get(data, "seq"), name |-> data["name"]]

\* cls(**data): the typed resource of a valid wire record.
Decode(cls, data) ==
    IF cls = "Pipeline"
    THEN [cls |-> cls, seq |-> Get(data, attr_seq_alias(cls)),
          command |-> data["command"]]
    ELSE [cls |-> cls, seq |-> Get(data, attr_seq_alias(cls)),
          name |-> data["name"]]

\* Variant: the message names the type only.
ValidationMessageTypeOnly(cls, data) == <<"validation error for ", cls>>

\* str(ValidationError): names the type and each invalid field.
ValidationMessage(cls, data) ==
    <<"validation error for ", cls>> \o
    (IF attr_required(cls) \in DOMAIN data THEN << >>
     ELSE <<attr_required(cls), "Field required">>)

\* The pipeline jobs a caller submits, and the pipelines it holds.
Commands == {<<"PipelineRun">>, <<"Purge">>}
BatchNames == {None, <<"spam">>}
Jobs == [command : Commands, batch_name : BatchNames]
PipelineRunSeqs == {None, <<"123">>}
Pipelines == [cls : {"Pipeline"}, seq : PipelineRunSeqs, command : Commands]

\* job.model_dump(mode='json', by_alias=True, exclude_none=True)
job_model_dump(job) ==
    [k \in {"command"} \cup (IF job.batch_name # None THEN {"batchName"} ELSE {})
        |-> IF k = "command" THEN job.command ELSE job.batch_name]

-----------------------------------------------------------------------------
(* Tenant._request, client.py lines 75-139. *)

Traced(out, trace) == [out EXCEPT !.trace = trace]

\* Variant: a timeout is reported as an unexpected response.
ConnectionFailedTimeoutAsResponse(x) ==
    IF x.transport = "timeout"
    THEN SAPResponseError(<<"Timeout while connecting">>, NoBody)
    ELSE SAPConnectionError(<<"Could not connect">>)

\* Lines 110-117: the exchange x ended without a response.
ConnectionFailed(x) ==
    IF x.transport = "timeout"
    THEN SAPConnectionError(<<"Timeout while connecting">>)
    ELSE SAPConnectionError(<<"Could not connect">>)

\* Variant: the content type is checked before the 304 status.
ReceivedContentTypeFirst(method, x) ==
    IF x.content_type # CONTENT_TYPE_JSON
    THEN Traced(SAPResponseError(
                    <<"Unexpected Content-Type: ", x.content_type>>, NoBody),
                <<"content_type">>)
    ELSE IF x.status = STATUS_NOT_MODIFIED
    THEN Traced(SAPNotModifiedError, <<"content_type", "not_modified">>)
    ELSE IF x.status \notin REQUIRED_STATUS[method]
    THEN Traced(SAPBadRequestError(
                    <<"Unexpected response status: ", ToString(x.status)>>,
                    x.body),
                <<"content_type", "not_modified", "json", "required_status">>)
    ELSE Traced(Return(x.body),
                <<"content_type", "not_modified", "json", "required_status">>)

\* Variant: the status whitelist is checked before the content type.
ReceivedStatusFirst(method, x) ==
    IF x.status = STATUS_NOT_MODIFIED
    THEN Traced(SAPNotModifiedError, <<"not_modified">>)
    ELSE IF x.status \notin REQUIRED_STATUS[method]
    THEN Traced(SAPBadRequestError(
                    <<"Unexpected response status: ", ToString(x.status)>>,
                    x.body),
                <<"not_modified", "json", "required_status">>)
    ELSE IF x.content_type # CONTENT_TYPE_JSON
    THEN Traced(SAPResponseError(
                    <<"Unexpected Content-Type: ", x.content_type>>, NoBody),
                <<"not_modified", "json", "required_status", "content_type">>)
    ELSE Traced(Return(x.body),
                <<"not_modified", "json", "required_status", "content_type">>)

\* Lines 119-139: the response x came back.  The trace lists what was
\* evaluated, in order: the 304 test, the content type test, the parsing of
\* the body (response.json()) and the status whitelist test.
Received(method, x) ==
    IF x.status = STATUS_NOT_MODIFIED
    THEN Traced(SAPNotModifiedError, <<"not_modified">>)
    ELSE IF x.content_type # CONTENT_TYPE_JSON
    THEN Traced(SAPResponseError(
                    <<"Unexpected Content-Type: ", x.content_type>>, NoBody),
                <<"not_modified", "content_type">>)
    ELSE IF x.status \notin REQUIRED_STATUS[method]
    THEN Traced(SAPBadRequestError(
                    <<"Unexpected response status: ", ToString(x.status)>>,
                    x.body),
                <<"not_modified", "content_type", "json", "required_status">>)
    ELSE Traced(Return(x.body),
                <<"not_modified", "content_type", "json", "required_status">>)

\* The outcome of one exchange x for a request with the given method.
Request(method, x) ==
    IF x.transport # "response"
    THEN ConnectionFailed(x)
    ELSE Received(method, x)

-----------------------------------------------------------------------------
(* The server: what may come back for a request. *)

MaxListLen == 2     \* longest record list of a create or update body

SeqsUpTo(S, n) == UNION {[1..k -> S] : k \in 0..n}

\* Functions from the non-empty subsets of keys to the values.
Maps(keys, values) == UNION {[d -> values] : d \in (SUBSET keys) \ {{}}}

Statuses == {200, 201, STATUS_NOT_MODIFIED, 400, 500}
OtherContentTypes == {"text/html", "application/json; charset=utf-8", NoName}

MSG_ALREADY_EXISTS ==
    <<"TCMP_35004", ":E: Another object already has the key (Name=Spamm)">>
MSG_MISSING_FIELD == <<"TCMP_1002", ":E: A value is required">>
MSG_OTHER == <<"eggs need bacon">>
MSG_REFERRED_BY == <<"TCMP_35001", ":E: The object is referred to">>
MSG_DELETED == <<"The record is successfully deleted.">>
ErrorMessages == {MSG_ALREADY_EXISTS, MSG_MISSING_FIELD, MSG_OTHER}

\* The per-record error maps of a rejected create or update; the '_ERROR_'
\* message may be empty.
ErrorElems ==
    {f \in Maps({ATTR_ERROR, "name"}, ErrorMessages \cup {<< >>}) :
        "name" \in DOMAIN f => f["name"] # << >>}

\* The records of an accepted create, update or read.
WireItems(cls) ==
    {f \in Maps({attr_seq_alias(cls), attr_required(cls)},
                {<<"123">>, <<"spamm">>, <<"bacon">>}) :
        /\ attr_seq_alias(cls) \in DOMAIN f => f[attr_seq_alias(cls)] = <<"123">>
        /\ attr_required(cls) \in DOMAIN f => f[attr_required(cls)] # <<"123">>}

\* A JSON body without any collection key.
OtherBody == [message |-> <<"Invalid Resource Payload">>]
HtmlBody == [html |-> <<"<html><body>Server Maintenance</body></html>">>]

\* Bodies keyed by the collection name, holding a list of records.
ListBodies(cls) ==
    {[k \in {attr_resource(cls)} |-> l] :
        l \in SeqsUpTo(ErrorElems \cup WireItems(cls), MaxListLen)}
    \cup {OtherBody}

\* Bodies keyed by the collection name, holding identifier -> message.
MapBodies(cls) ==
    {[k \in {attr_resource(cls)} |-> m] :
        m \in Maps({<<"123">>, <<"999">>}, {MSG_REFERRED_BY, MSG_DELETED})}
    \cup {OtherBody}

\* Bodies that are one record.
ItemBodies(cls) == WireItems(cls) \cup {OtherBody}

MSG_DELETE_PIPELINE ==
    <<"TCMP_60255", ":E: An error occurred while attempting to delete a job.">>

\* Bodies of a cancel, keyed at the top by the run identifier or by something
\* else, each key holding a message.
CancelBodies ==
    Maps({"123", "message"},
         {MSG_DELETE_PIPELINE, MSG_REFERRED_BY, MSG_DELETED})

MaxIds == 2     \* most identifiers in the list of a submission body

\* A JSON value that is a string, and one that is a list of strings.
JsonText(s) == [text |-> s]
JsonList(l) == [list |-> l]

\* What a submission body holds under an index: the identifiers of the
\* pipelines that were created, or a message.
SubmissionValues ==
    {JsonList(l) : l \in SeqsUpTo({<<"123">>, <<"999">>}, MaxIds)}
    \cup {JsonText(MSG_OTHER), JsonText(<< >>)}

\* Bodies of a submission: 'pipelines' holding index -> value, or no
\* 'pipelines' at all.
SubmissionBodies ==
    {[k \in {"pipelines"} |-> m] : m \in Maps({"0", "1"}, SubmissionValues)}
    \cup {OtherBody}

ConnectionFailures ==
    {[transport |-> t, status |-> 0, content_type |-> NoName, body |-> NoBody] :
        t \in {"timeout", "client_error"}}

\* The responses with the given JSON bodies: any status with a JSON body, any
\* status with a body that is not JSON, and a 304 without body.
Responses(bodies) ==
    {[transport |-> "response", status |-> s, content_type |-> CONTENT_TYPE_JSON,
      body |-> b] : s \in Statuses, b \in bodies}
    \cup
    {[transport |-> "response", status |-> s, content_type |-> c,
      body |-> HtmlBody] : s \in Statuses, c \in OtherContentTypes}
    \cup
    {[transport |-> "response", status |-> STATUS_NOT_MODIFIED,
      content_type |-> c, body |-> NoBody] :
        c \in OtherContentTypes \cup {CONTENT_TYPE_JSON}}

MaxPageLen == 2     \* most records in one page of a listing
MaxRequests == 3    \* most requests one listing sends

\* The n-th record the server lists: a valid one, or one without its name.
ListedItem(cls, n, valid) ==
    [k \in {attr_seq_alias(cls)} \cup (IF valid THEN {"name"} ELSE {})
        |-> IF k = "name" THEN <<"spamm">> ELSE <<ToString(n)>>]

\* A page of records numbered from n + 1, each valid or not.
Page(cls, n, flags) ==
    [i \in 1..Len(flags) |-> ListedItem(cls, n + i, flags[i])]

\* The continuation cursor that leads to request number k.
Cursor(cls, k) == <<"/", "v2", "/", attr_resource(cls), "?skip=", ToString(k)>>

WithNext(body, next) == body @@ (ATTR_NEXT :> next)

\* The bodies of a listing page, after n records were listed: the collection
\* with or without `next` (a cursor, when more is true, or an empty string),
\* or no collection at all.
PageBodies(cls, n, k, more) ==
    LET pages == {[c \in {attr_resource(cls)} |-> Page(cls, n, flags)] :
                     flags \in SeqsUpTo(BOOLEAN, MaxPageLen)}
    IN  pages
        \cup {WithNext(b, << >>) : b \in pages}
        \cup (IF more THEN {WithNext(b, Cursor(cls, k)) : b \in pages} ELSE {})
        \cup {OtherBody}

-----------------------------------------------------------------------------
(* The operations of Tenant as functions of what _request gave them. *)

\* Variant: the message does not hold the payload.
UnexpectedPayloadWithoutBody(payload) ==
    SAPResponseError(<<"Unexpected payload. ">>, NoBody)

\* f'Unexpected payload. {payload}'
UnexpectedPayload(payload) == SAPResponseError(<<"Unexpected payload. ">>, payload)
UnexpectedError(error_data) == SAPResponseError(<<"Unexpected error. ">>, error_data)

\* An exception of _request that the operation does not catch.
Propagate(out) == [out EXCEPT !.trace = << >>]

\* 'Resource {cls.__name__} has no unique identifier'
NoIdentifier(cls) == <<"Resource ", cls, " has ", "no unique identifier">>

\* Variant: only None counts as a missing identifier.
HasSeqNotNone(resource) == resource.seq # None

\* `if not (seq := resource.seq)` is not taken.
HasSeq(resource) == Truthy(resource.seq)

\* f'{resource.attr_endpoint}({seq})'
SeqUri(cls, seq) == attr_endpoint(cls) \o <<"(">> \o seq \o <<")">>

\* The decoding of the first record of an accepted create or update.
DecodeFirst(cls, body) ==
    IF attr_resource(cls) \notin DOMAIN body
    THEN UnexpectedPayload(body)
    ELSE LET json_data == body[attr_resource(cls)] IN
         IF json_data = << >>
         THEN Raise("IndexError", <<"list index out of range">>, NoBody)
         ELSE LET data == json_data[1] IN
              IF Valid(cls, data)
              THEN Return(Decode(cls, data))
              ELSE SAPResponseError(ValidationMessage(cls, data), data)

\* Variant: the missing-field code is looked for in the '_ERROR_' message only.
RECURSIVE CreateErrorsTaggedOnly(_, _)
CreateErrorsTaggedOnly(error_data, i) ==
    IF i > Len(error_data)
    THEN UnexpectedError(error_data)
    ELSE LET errors == error_data[i]
             error_message == Get(errors, ATTR_ERROR)
         IN  IF Truthy(error_message)
                /\ Contains(ERROR_ALREADY_EXISTS, error_message)
             THEN SAPAlreadyExistsError(error_message)
             ELSE IF Truthy(error_message)
                     /\ Contains(ERROR_MISSING_FIELD, error_message)
             THEN SAPMissingFieldError(errors)
             ELSE CreateErrorsTaggedOnly(error_data, i + 1)

\* Variant: within an element the missing-field code is looked for first.
RECURSIVE CreateErrorsMissingFirst(_, _)
CreateErrorsMissingFirst(error_data, i) ==
    IF i > Len(error_data)
    THEN UnexpectedError(error_data)
    ELSE LET errors == error_data[i]
             error_message == Get(errors, ATTR_ERROR)
         IN  IF \E k \in DOMAIN errors :
                   Contains(ERROR_MISSING_FIELD, errors[k])
             THEN SAPMissingFieldError(errors)
             ELSE IF Truthy(error_message)
                     /\ Contains(ERROR_ALREADY_EXISTS, error_message)
             THEN SAPAlreadyExistsError(error_message)
             ELSE CreateErrorsMissingFirst(error_data, i + 1)

\* create, lines 178-187: the loop over the error list, from element i.
RECURSIVE CreateErrors(_, _)
CreateErrors(error_data, i) ==
    IF i > Len(error_data)
    THEN UnexpectedError(error_data)
    ELSE LET errors == error_data[i]
             error_message == Get(errors, ATTR_ERROR)
         IN  IF Truthy(error_message)
                /\ Contains(ERROR_ALREADY_EXISTS, error_message)
             THEN SAPAlreadyExistsError(error_message)
             ELSE IF \E k \in DOMAIN errors :
                        Contains(ERROR_MISSING_FIELD, errors[k])
             THEN SAPMissingFieldError(errors)
             ELSE CreateErrors(error_data, i + 1)

\* Variant: a rejection whose error list has no known code is dropped and the
\* resource is returned as it was sent.
createRejectionDropped(resource, out) ==
    IF out.kind = "raise"
    THEN IF out.exc = "SAPBadRequestError"
         THEN IF attr_resource(resource.cls) \notin DOMAIN out.data
              THEN UnexpectedPayload(out.data)
              ELSE LET raised == CreateErrors(out.data[attr_resource(resource.cls)], 1)
                   IN  IF raised.exc = "SAPResponseError"
                       THEN Return(resource)
                       ELSE raised
         ELSE Propagate(out)
    ELSE DecodeFirst(resource.cls, out.value)

\* create, lines 165-201, after _request ended with `out`.
create(resource, out) ==
    IF out.kind = "raise"
    THEN IF out.exc = "SAPBadRequestError"
         THEN IF attr_resource(resource.cls) \notin DOMAIN out.data
              THEN UnexpectedPayload(out.data)
              ELSE CreateErrors(out.data[attr_resource(resource.cls)], 1)
         ELSE Propagate(out)
    ELSE DecodeFirst(resource.cls, out.value)

\* Variant: an element that has the '_ERROR_' key decides, empty or not.
RECURSIVE UpdateErrorsAnyTag(_, _)
UpdateErrorsAnyTag(error_data, i) ==
    IF i > Len(error_data)
    THEN UnexpectedError(error_data)
    ELSE IF ATTR_ERROR \in DOMAIN error_data[i]
         THEN SAPResponseError(error_data[i][ATTR_ERROR], NoBody)
         ELSE UpdateErrorsAnyTag(error_data, i + 1)

\* update, lines 240-246: the loop over the error list, from element i.
RECURSIVE UpdateErrors(_, _)
UpdateErrors(error_data, i) ==
    IF i > Len(error_data)
    THEN UnexpectedError(error_data)
    ELSE LET error_message == Get(error_data[i], ATTR_ERROR) IN
         IF Truthy(error_message)
         THEN SAPResponseError(error_message, NoBody)
         ELSE UpdateErrors(error_data, i + 1)

\* Variant: the not-modified error is not caught.
updateNotModifiedRaised(resource, out) ==
    IF out.kind = "raise"
    THEN IF out.exc = "SAPBadRequestError"
         THEN IF attr_resource(resource.cls) \notin DOMAIN out.data
              THEN UnexpectedPayload(out.data)
              ELSE UpdateErrors(out.data[attr_resource(resource.cls)], 1)
         ELSE Propagate(out)
    ELSE DecodeFirst(resource.cls, out.value)

\* update, lines 225-260, after _request ended with `out`.
update(resource, out) ==
    IF out.kind = "raise"
    THEN IF out.exc = "SAPNotModifiedError"
         THEN Return(resource)
         ELSE IF out.exc = "SAPBadRequestError"
         THEN IF attr_resource(resource.cls) \notin DOMAIN out.data
              THEN UnexpectedPayload(out.data)
              ELSE UpdateErrors(out.data[attr_resource(resource.cls)], 1)
         ELSE Propagate(out)
    ELSE DecodeFirst(resource.cls, out.value)

\* Variant: a rejection that names the seq is reported as unexpected.
deleteFailedAsResponse(resource, out) ==
    LET key == attr_resource(resource.cls)
        seq == resource.seq
    IN  IF out.kind = "raise"
        THEN IF out.exc = "SAPBadRequestError"
             THEN IF key \notin DOMAIN out.data
                  THEN UnexpectedPayload(out.data)
                  ELSE UnexpectedPayload(out.data[key])
             ELSE Propagate(out)
        ELSE IF key \notin DOMAIN out.value
        THEN UnexpectedPayload(out.value)
        ELSE IF seq \notin DOMAIN out.value[key]
        THEN UnexpectedPayload(out.value[key])
        ELSE Return(TRUE)

\* Variant: an accepted body is not searched for the seq.
deleteSeqNotChecked(resource, out) ==
    LET key == attr_resource(resource.cls)
        seq == resource.seq
    IN  IF out.kind = "raise"
        THEN IF out.exc = "SAPBadRequestError"
             THEN IF key \notin DOMAIN out.data
                  THEN UnexpectedPayload(out.data)
                  ELSE IF seq \notin DOMAIN out.data[key]
                  THEN UnexpectedPayload(out.data[key])
                  ELSE SAPDeleteFailedError(out.data[key][seq])
             ELSE Propagate(out)
        ELSE IF key \notin DOMAIN out.value
        THEN UnexpectedPayload(out.value)
        ELSE Return(TRUE)

\* delete, lines 284-316, after _request ended with `out`.
delete(resource, out) ==
    LET key == attr_resource(resource.cls)
        seq == resource.seq
    IN  IF out.kind = "raise"
        THEN IF out.exc = "SAPBadRequestError"
             THEN IF key \notin DOMAIN out.data
                  THEN UnexpectedPayload(out.data)
                  ELSE IF seq \notin DOMAIN out.data[key]
                  THEN UnexpectedPayload(out.data[key])
                  ELSE SAPDeleteFailedError(out.data[key][seq])
             ELSE Propagate(out)
        ELSE IF key \notin DOMAIN out.value
        THEN UnexpectedPayload(out.value)
        ELSE IF seq \notin DOMAIN out.value[key]
        THEN UnexpectedPayload(out.value[key])
        ELSE Return(TRUE)

\* Variant: a rejection is raised as an unexpected response.
read_seqRejectionAsResponse(cls, out) ==
    IF out.kind = "raise"
    THEN IF out.exc = "SAPBadRequestError"
         THEN UnexpectedPayload(out.data)
         ELSE Propagate(out)
    ELSE IF Valid(cls, out.value)
    THEN Return(Decode(cls, out.value))
    ELSE SAPResponseError(ValidationMessage(cls, out.value), out.value)

\* read_seq, lines 459-469, after _request ended with `out`.
read_seq(cls, out) ==
    IF out.kind = "raise"
    THEN Propagate(out)
    ELSE IF Valid(cls, out.value)
    THEN Return(Decode(cls, out.value))
    ELSE SAPResponseError(ValidationMessage(cls, out.value), out.value)

\* Variant: the last element is taken.
First0Last(value) ==
    IF "list" \in DOMAIN value
    THEN IF value.list = << >>
         THEN Raise("IndexError", <<"list index out of range">>, NoBody)
         ELSE Return(value.list[Len(value.list)])
    ELSE IF value.text = << >>
         THEN Raise("IndexError", <<"string index out of range">>, NoBody)
         ELSE Return(<<value.text[Len(value.text)]>>)

\* value[0] of a JSON list or string: its first element, or its first
\* piece as a string of its own.
First0(value) ==
    IF "list" \in DOMAIN value
    THEN IF value.list = << >>
         THEN Raise("IndexError", <<"list index out of range">>, NoBody)
         ELSE Return(value.list[1])
    ELSE IF value.text = << >>
         THEN Raise("IndexError", <<"string index out of range">>, NoBody)
         ELSE Return(<<value.text[1]>>)

\* Variant: a rejected submission that has a message raises the
\* rejection itself.
run_pipelineRejectionRaised(out) ==
    IF out.kind = "raise"
    THEN IF out.exc = "SAPBadRequestError"
         THEN IF "pipelines" \notin DOMAIN out.data
              THEN UnexpectedPayload(out.data)
              ELSE LET error_data == out.data["pipelines"] IN
                   IF "0" \notin DOMAIN error_data
                   THEN UnexpectedPayload(error_data)
                   ELSE Propagate(out)
         ELSE Propagate(out)
    ELSE IF "pipelines" \notin DOMAIN out.value
    THEN UnexpectedPayload(out.value)
    ELSE LET json_data == out.value["pipelines"] IN
         IF "0" \notin DOMAIN json_data
         THEN UnexpectedPayload(json_data)
         ELSE First0(json_data["0"])

\* run_pipeline, lines 521-554, after the _request of the job ended with
\* `out`: the exception it raises, or the identifier it goes on to read.  A
\* message is raised as the exception's text, any other value as its payload.
run_pipeline(out) ==
    IF out.kind = "raise"
    THEN IF out.exc = "SAPBadRequestError"
         THEN IF "pipelines" \notin DOMAIN out.data
              THEN UnexpectedPayload(out.data)
              ELSE LET error_data == out.data["pipelines"] IN
                   IF "0" \notin DOMAIN error_data
                   THEN UnexpectedPayload(error_data)
                   ELSE LET msg == error_data["0"] IN
                        IF "text" \in DOMAIN msg
                        THEN SAPResponseError(msg.text, NoBody)
                        ELSE SAPResponseError(<< >>, msg)
         ELSE Propagate(out)
    ELSE IF "pipelines" \notin DOMAIN out.value
    THEN UnexpectedPayload(out.value)
    ELSE LET json_data == out.value["pipelines"] IN
         IF "0" \notin DOMAIN json_data
         THEN UnexpectedPayload(json_data)
         ELSE First0(json_data["0"])

\* Variant: every rejection that names the run identifier counts as success.
cancel_pipelineAnyMessage(job, out) ==
    LET pipeline_run_seq == Key(job.seq) IN
    IF out.kind = "raise"
    THEN IF out.exc = "SAPBadRequestError"
         THEN IF pipeline_run_seq \notin DOMAIN out.data
              THEN UnexpectedPayload(out.data)
              ELSE Return(TRUE)
         ELSE Propagate(out)
    ELSE IF pipeline_run_seq \notin DOMAIN out.value
    THEN UnexpectedPayload(out.value)
    ELSE Return(TRUE)

\* Variant: the benign code is not told from the other messages.
cancel_pipelineNoQuirk(job, out) ==
    LET pipeline_run_seq == Key(job.seq) IN
    IF out.kind = "raise"
    THEN IF out.exc = "SAPBadRequestError"
         THEN IF pipeline_run_seq \notin DOMAIN out.data
              THEN UnexpectedPayload(out.data)
              ELSE UnexpectedPayload(out.data[pipeline_run_seq])
         ELSE Propagate(out)
    ELSE IF pipeline_run_seq \notin DOMAIN out.value
    THEN UnexpectedPayload(out.value)
    ELSE Return(TRUE)

\* cancel_pipeline, lines 573-600, after _request ended with `out`.
cancel_pipeline(job, out) ==
    LET pipeline_run_seq == Key(job.seq) IN
    IF out.kind = "raise"
    THEN IF out.exc = "SAPBadRequestError"
         THEN IF pipeline_run_seq \notin DOMAIN out.data
              THEN UnexpectedPayload(out.data)
              ELSE LET error_message == out.data[pipeline_run_seq] IN
                   IF Contains(ERROR_DELETE_PIPELINE, error_message)
                   THEN Return(TRUE)
                   ELSE UnexpectedPayload(error_message)
         ELSE Propagate(out)
    ELSE IF pipeline_run_seq \notin DOMAIN out.value
    THEN UnexpectedPayload(out.value)
    ELSE Return(TRUE)

\* ','.join(aliases)
RECURSIVE Join(_)
Join(aliases) ==
    IF Len(aliases) = 0 THEN << >>
    ELSE IF Len(aliases) = 1 THEN <<aliases[1]>>
    ELSE <<aliases[1], ",">> \o Join(Tail(aliases))

\* [field_info.alias for field_info in expands.values() if field_info.alias]
expand_alias(cls) ==
    LET aliased == SelectSeq(expands(cls),
                             LAMBDA field_info :
                                 field_info.alias # NoName /\ field_info.alias # "")
    IN  [i \in 1..Len(aliased) |-> aliased[i].alias]

\* The `expand` parameter of a type, when it declares relation aliases.
ExpandParams(cls) ==
    [k \in (IF expand_alias(cls) # << >> THEN {ATTR_EXPAND} ELSE {})
        |-> Join(expand_alias(cls))]

\* retry(): the attempts made before a connection error is surfaced.
retries == 3

\* Variant: retry() is told to catch every exception of the client.
retry_exceptionsAny ==
    {"SAPConnectionError", "SAPNotModifiedError", "SAPResponseError",
     "SAPBadRequestError"}

\* read_all, line 377: the exceptions retry() is told to catch.
retry_exceptions == {"SAPConnectionError"}

\* Variant: the call is made again however many attempts were made.
retry_againUnbounded(out, n, exceptions) ==
    out.kind = "raise" /\ out.exc \in exceptions

\* retry(): the call that ended with `out` in attempt n is made again, with
\* the same arguments, when it raised one of the exceptions to catch and
\* attempts are left.
retry_again(out, n, exceptions) ==
    out.kind = "raise" /\ out.exc \in exceptions /\ n < retries

Min(a, b) == IF a < b THEN a ELSE b
Max(a, b) == IF a > b THEN a ELSE b

\* Variant: the bounds are applied the other way round.
EffectivePageSizeSwapped(cls, page_size) ==
    LET clamped == Max(Min(page_size, MIN_PAGE_SIZE), MAX_PAGE_SIZE) IN
    IF cls = "SalesTransaction" /\ clamped # 1 THEN 1 ELSE clamped

\* read_all, lines 341-348: the page size that is requested.
EffectivePageSize(cls, page_size) ==
    LET clamped == Min(Max(page_size, MIN_PAGE_SIZE), MAX_PAGE_SIZE) IN
    IF cls = "SalesTransaction" /\ clamped # 1 THEN 1 ELSE clamped

\* read_all, lines 359-368: the query parameters of the first request.
ReadAllParams(cls, filters, order_by, page_size) ==
    (ATTR_TOP :> EffectivePageSize(cls, page_size))
    @@ [k \in (IF Truthy(filters) THEN {ATTR_FILTER} ELSE {}) |-> filters]
    @@ [k \in (IF order_by # << >> THEN {ATTR_ORDERBY} ELSE {})
           |-> Join(order_by)]
    @@ ExpandParams(cls)

\* params = {}
EmptyParams == [k \in {} |-> << >>]

\* The number of records in a list of pages.
RECURSIVE Count(_)
Count(pages) == IF pages = << >> THEN 0 ELSE Len(pages[1]) + Count(Tail(pages))

-----------------------------------------------------------------------------
(* The caller's steps. *)

Init ==
    /\ pc = "idle"
    /\ op = NoOp
    /\ req = NoReq
    /\ attempt = 0
    /\ sent = << >>
    /\ returned = << >>
    /\ response = NoResponse
    /\ outcome = NoOutcome
    /\ failures = 0
    /\ result = NoOutcome
    /\ served = << >>
    /\ items = << >>
    /\ idx = 0
    /\ yielded = << >>

\* The operation builds a request and awaits _request.
Send(o, r) ==
    /\ op' = o
    /\ req' = r
    /\ attempt' = 1
    /\ pc' = "await"
    /\ UNCHANGED <<sent, returned, response, outcome, failures, result,
                   served, items, idx, yielded>>

\* The operation ends before it sends anything.
EndEarly(o, res) ==
    /\ op' = o
    /\ result' = res
    /\ pc' = "done"
    /\ UNCHANGED <<req, attempt, sent, returned, response, outcome, failures,
                   served, items, idx, yielded>>

\* The operation ends after _request.
End(res) ==
    /\ result' = res
    /\ pc' = "done"
    /\ UNCHANGED <<op, req, attempt, sent, returned, response, outcome,
                   failures, served, items, idx, yielded>>

\* create, lines 155-170.
CreateCall ==
    /\ pc = "idle"
    /\ \E resource \in Resources :
        Send([name |-> "create", resource |-> resource],
             [method |-> "POST", uri |-> attr_endpoint(resource.cls),
              params |-> NoParams, json |-> <<model_dump(resource)>>])

\* Variant: update refuses a resource without identifier, as delete does.
UpdateCallSeqRequired ==
    /\ pc = "idle"
    /\ \E resource \in Resources :
        LET o == [name |-> "update", resource |-> resource] IN
        IF ~HasSeq(resource)
        THEN EndEarly(o, SAPResponseError(NoIdentifier(resource.cls), NoBody))
        ELSE Send(o, [method |-> "PUT", uri |-> attr_endpoint(resource.cls),
                      params |-> NoParams, json |-> <<model_dump(resource)>>])

\* update, lines 215-230.
UpdateCall ==
    /\ pc = "idle"
    /\ \E resource \in Resources :
        Send([name |-> "update", resource |-> resource],
             [method |-> "PUT", uri |-> attr_endpoint(resource.cls),
              params |-> NoParams, json |-> <<model_dump(resource)>>])

\* delete, lines 275-288.
DeleteCall ==
    /\ pc = "idle"
    /\ \E resource \in Resources :
        LET o == [name |-> "delete", resource |-> resource] IN
        IF ~HasSeq(resource)
        THEN EndEarly(o, SAPDeleteFailedError(NoIdentifier(resource.cls)))
        ELSE Send(o, [method |-> "DELETE",
                      uri |-> SeqUri(resource.cls, resource.seq),
                      params |-> NoParams, json |-> << >>])

\* read_seq, lines 449-463.
ReadSeqRequest(cls, seq) ==
    [method |-> "GET", uri |-> SeqUri(cls, seq), params |-> ExpandParams(cls),
     json |-> << >>]

\* read, lines 495-500.
ReadCall ==
    /\ pc = "idle"
    /\ \E resource \in Resources :
        LET o == [name |-> "read", resource |-> resource] IN
        IF ~HasSeq(resource)
        THEN EndEarly(o, SAPNotFoundError(NoIdentifier(resource.cls)))
        ELSE Send(o, ReadSeqRequest(resource.cls, resource.seq))

\* read_seq, lines 449-463, called by the caller itself.
ReadSeqCall ==
    /\ pc = "idle"
    /\ \E cls \in Classes, seq \in {<<"123">>, <<"999">>} :
        Send([name |-> "read_seq", cls |-> cls, seq |-> seq],
             ReadSeqRequest(cls, seq))

\* run_pipeline, lines 514-526.
RunPipelineCall ==
    /\ pc = "idle"
    /\ \E job \in Jobs :
        Send([name |-> "run_pipeline", job |-> job],
             [method |-> "POST", uri |-> pipeline_attr_endpoint,
              params |-> NoParams, json |-> <<job_model_dump(job)>>])

\* cancel_pipeline, lines 570-577.
CancelPipelineCall ==
    /\ pc = "idle"
    /\ \E job \in Pipelines :
        Send([name |-> "cancel_pipeline", job |-> job],
             [method |-> "DELETE", uri |-> SeqUri("Pipeline", job.seq),
              params |-> NoParams, json |-> << >>])

Filters == {None, <<"spamm eq 'eggs'">>}
OrderBys == {<< >>, <<"name">>}
PageSizes == {MIN_PAGE_SIZE - 1, DEFAULT_PAGE_SIZE}

\* read_all(...) makes the generator; nothing runs until it is iterated.
ReadAllCall ==
    /\ pc = "idle"
    /\ \E cls \in Classes, filters \in Filters, order_by \in OrderBys,
          page_size \in PageSizes :
        op' = [name |-> "read_all", cls |-> cls, filters |-> filters,
               order_by |-> order_by, page_size |-> page_size]
    /\ pc' = "gen_created"
    /\ UNCHANGED <<req, attempt, sent, returned, response, outcome, failures,
                   result, served, items, idx, yielded>>

\* read_all, lines 341-378: the first step of the iteration runs the
\* generator up to its first request.
ReadAllStart ==
    /\ pc = "gen_created"
    /\ Send(op, [method |-> "GET", uri |-> attr_endpoint(op.cls),
                 params |-> ReadAllParams(op.cls, op.filters, op.order_by,
                                          op.page_size),
                 json |-> << >>])

\* Variant: read_first lists with the default page size.
ReadFirstCallDefaultSize ==
    /\ pc = "idle"
    /\ \E cls \in Classes, filters \in Filters, order_by \in OrderBys :
        Send([name |-> "read_first", cls |-> cls, filters |-> filters,
              order_by |-> order_by, page_size |-> DEFAULT_PAGE_SIZE],
             [method |-> "GET", uri |-> attr_endpoint(cls),
              params |-> ReadAllParams(cls, filters, order_by,
                                       DEFAULT_PAGE_SIZE),
              json |-> << >>])

\* read_first, lines 423-431, and read_all, lines 341-378: the generator is
\* made with page_size=1 and iterated at once, up to its first request.
ReadFirstCall ==
    /\ pc = "idle"
    /\ \E cls \in Classes, filters \in Filters, order_by \in OrderBys :
        Send([name |-> "read_first", cls |-> cls, filters |-> filters,
              order_by |-> order_by, page_size |-> 1],
             [method |-> "GET", uri |-> attr_endpoint(cls),
              params |-> ReadAllParams(cls, filters, order_by, 1),
              json |-> << >>])

\* The bodies the server may answer the operation with.
BodiesFor(o) ==
    IF o.name \in {"create", "update"} THEN ListBodies(o.resource.cls)
    ELSE IF o.name = "delete" THEN MapBodies(o.resource.cls)
    ELSE IF o.name \in {"read_all", "read_first"}
    THEN PageBodies(o.cls, Count(served), Len(sent) + 2,
                    Len(sent) + 1 < MaxRequests)
    ELSE IF o.name = "read_seq" THEN ItemBodies(o.cls)
    ELSE IF o.name = "cancel_pipeline" THEN CancelBodies
    ELSE IF o.name = "run_pipeline"
    THEN IF req.method = "POST" THEN SubmissionBodies
                                ELSE ItemBodies("Pipeline")
    ELSE ItemBodies(o.resource.cls)

\* The connection failures the exchange may end in: a listing that has sent
\* MaxRequests - 1 requests gets an answer to its last one, unless that is
\* the last attempt of retry().
FailuresFor(o) ==
    IF /\ o.name \in {"read_all", "read_first"}
       /\ Len(sent) + 1 >= MaxRequests
       /\ attempt < retries
    THEN {}
    ELSE ConnectionFailures

\* _request, lines 101-139: the request goes out and the exchange ends in a
\* connection failure or a response.
Exchange ==
    /\ pc = "await"
    /\ \E x \in FailuresFor(op) \cup Responses(BodiesFor(op)) :
        /\ sent' = Append(sent, req)
        /\ response' = x
        /\ outcome' = Request(req.method, x)
        /\ returned' = IF Request(req.method, x).kind = "return"
                       THEN Append(returned, x.body)
                       ELSE returned
        /\ failures' = IF x.transport = "response" THEN failures ELSE failures + 1
        /\ pc' = "handle"
    /\ UNCHANGED <<op, req, attempt, result, served, items, idx, yielded>>

CreateHandle ==
    /\ pc = "handle" /\ op.name = "create"
    /\ End(create(op.resource, outcome))

UpdateHandle ==
    /\ pc = "handle" /\ op.name = "update"
    /\ End(update(op.resource, outcome))

DeleteHandle ==
    /\ pc = "handle" /\ op.name = "delete"
    /\ End(delete(op.resource, outcome))

ReadHandle ==
    /\ pc = "handle" /\ op.name = "read"
    /\ End(read_seq(op.resource.cls, outcome))

ReadSeqHandle ==
    /\ pc = "handle" /\ op.name = "read_seq"
    /\ End(read_seq(op.cls, outcome))

CancelPipelineHandle ==
    /\ pc = "handle" /\ op.name = "cancel_pipeline"
    /\ End(cancel_pipeline(op.job, outcome))

\* run_pipeline, lines 527-555: after the submission, the error, or the
\* request of read_seq for the identifier; after that request, read_seq's end.
RunPipelineHandle ==
    /\ pc = "handle" /\ op.name = "run_pipeline"
    /\ IF req.method = "POST"
       THEN LET seq == run_pipeline(outcome) IN
            IF seq.kind = "raise"
            THEN End(seq)
            ELSE /\ req' = ReadSeqRequest("Pipeline", seq.value)
                 /\ attempt' = 1
                 /\ pc' = "await"
                 /\ UNCHANGED <<op, sent, returned, response, outcome,
                                failures, result, served, items, idx, yielded>>
       ELSE End(read_seq("Pipeline", outcome))

\* Variant: the cursor is followed without the 'api' prefix.
NextRequestNoPrefix(body) ==
    [method |-> "GET", uri |-> body[ATTR_NEXT], params |-> EmptyParams,
     json |-> << >>]

\* Variant: the cursor is followed with the parameters of the request before.
NextRequestKeepParams(body) ==
    [method |-> "GET", uri |-> <<"api">> \o body[ATTR_NEXT],
     params |-> req.params, json |-> << >>]

\* read_all, lines 397-398 and 372-378: the request that follows the cursor.
NextRequest(body) ==
    [method |-> "GET", uri |-> <<"api">> \o body[ATTR_NEXT],
     params |-> EmptyParams, json |-> << >>]

\* Variant: a record that fails validation is skipped.
AdvanceSkipInvalid(its, i, body) ==
    LET valid == {j \in (i + 1)..Len(its) : Valid(op.cls, its[j])} IN
    IF valid # {}
    THEN LET j == CHOOSE j \in valid : \A k \in valid : j <= k IN
         /\ yielded' = Append(yielded, Decode(op.cls, its[j]))
         /\ idx' = j
         /\ pc' = "gen_yielded"
         /\ UNCHANGED <<req, attempt, result>>
    ELSE IF ~Truthy(Get(body, ATTR_NEXT))
    THEN /\ result' = [Return(NoValue) EXCEPT !.kind = "exhausted"]
         /\ pc' = "done"
         /\ idx' = Len(its)
         /\ UNCHANGED <<req, attempt, yielded>>
    ELSE /\ req' = NextRequest(body)
         /\ attempt' = 1
         /\ pc' = "await"
         /\ idx' = Len(its)
         /\ UNCHANGED <<result, yielded>>

\* Variant: with the last record of a page the request of the next page goes
\* out already, before the consumer asks for more.
AdvancePrefetch(its, i, body) ==
    IF i < Len(its)
    THEN IF Valid(op.cls, its[i + 1])
         THEN /\ yielded' = Append(yielded, Decode(op.cls, its[i + 1]))
              /\ idx' = i + 1
              /\ IF i + 1 = Len(its) /\ Truthy(Get(body, ATTR_NEXT))
                 THEN /\ req' = NextRequest(body)
                      /\ attempt' = 1
                      /\ pc' = "await"
                      /\ UNCHANGED result
                 ELSE /\ pc' = "gen_yielded"
                      /\ UNCHANGED <<req, attempt, result>>
         ELSE /\ result' = SAPResponseError(
                                ValidationMessage(op.cls, its[i + 1]), its[i + 1])
              /\ pc' = "done"
              /\ UNCHANGED <<req, attempt, idx, yielded>>
    ELSE IF ~Truthy(Get(body, ATTR_NEXT))
    THEN /\ result' = [Return(NoValue) EXCEPT !.kind = "exhausted"]
         /\ pc' = "done"
         /\ UNCHANGED <<req, attempt, idx, yielded>>
    ELSE /\ req' = NextRequest(body)
         /\ attempt' = 1
         /\ pc' = "await"
         /\ UNCHANGED <<result, idx, yielded>>

\* Variant: a page without records ends the listing, cursor or not.
AdvanceStopOnEmpty(its, i, body) ==
    IF i < Len(its)
    THEN IF Valid(op.cls, its[i + 1])
         THEN /\ yielded' = Append(yielded, Decode(op.cls, its[i + 1]))
              /\ idx' = i + 1
              /\ pc' = "gen_yielded"
              /\ UNCHANGED <<req, attempt, result>>
         ELSE /\ result' = SAPResponseError(
                                ValidationMessage(op.cls, its[i + 1]), its[i + 1])
              /\ pc' = "done"
              /\ UNCHANGED <<req, attempt, idx, yielded>>
    ELSE IF its = << >> \/ ~Truthy(Get(body, ATTR_NEXT))
    THEN /\ result' = [Return(NoValue) EXCEPT !.kind = "exhausted"]
         /\ pc' = "done"
         /\ UNCHANGED <<req, attempt, idx, yielded>>
    ELSE /\ req' = NextRequest(body)
         /\ attempt' = 1
         /\ pc' = "await"
         /\ UNCHANGED <<result, idx, yielded>>

\* read_all, lines 386-398: the generator runs on from record i of the page
\* whose body it holds, to its next yield, its next request or its end.
Advance(its, i, body) ==
    IF i < Len(its)
    THEN IF Valid(op.cls, its[i + 1])
         THEN /\ yielded' = Append(yielded, Decode(op.cls, its[i + 1]))
              /\ idx' = i + 1
              /\ pc' = "gen_yielded"
              /\ UNCHANGED <<req, attempt, result>>
         ELSE /\ result' = SAPResponseError(
                                ValidationMessage(op.cls, its[i + 1]), its[i + 1])
              /\ pc' = "done"
              /\ UNCHANGED <<req, attempt, idx, yielded>>
    ELSE IF ~Truthy(Get(body, ATTR_NEXT))
    THEN /\ result' = [Return(NoValue) EXCEPT !.kind = "exhausted"]
         /\ pc' = "done"
         /\ UNCHANGED <<req, attempt, idx, yielded>>
    ELSE /\ req' = NextRequest(body)
         /\ attempt' = 1
         /\ pc' = "await"
         /\ UNCHANGED <<result, idx, yielded>>

\* read_all, lines 372-392: retry(_request) ended; on a page the generator
\* runs to its first yield.
ReadAllHandle ==
    /\ pc = "handle" /\ op.name = "read_all"
    /\ IF outcome.kind = "raise"
       THEN IF retry_again(outcome, attempt, retry_exceptions)
            THEN /\ attempt' = attempt + 1
                 /\ pc' = "await"
                 /\ UNCHANGED <<req, result, served, items, idx, yielded>>
            ELSE /\ result' = Propagate(outcome)
                 /\ pc' = "done"
                 /\ UNCHANGED <<req, attempt, served, items, idx, yielded>>
       ELSE IF attr_resource(op.cls) \notin DOMAIN outcome.value
       THEN /\ result' = UnexpectedPayload(outcome.value)
            /\ pc' = "done"
            /\ UNCHANGED <<req, attempt, served, items, idx, yielded>>
       ELSE LET json == outcome.value[attr_resource(op.cls)] IN
            /\ served' = Append(served, json)
            /\ items' = json
            /\ Advance(json, 0, outcome.value)
    /\ UNCHANGED <<op, sent, returned, response, outcome, failures>>

\* The consumer asks for the next resource: the generator resumes after its
\* yield.
ReadAllAnext ==
    /\ pc = "gen_yielded"
    /\ Advance(items, idx, outcome.value)
    /\ UNCHANGED <<op, sent, returned, response, outcome, failures, served,
                   items>>

\* Variant: a first page without records is taken for an empty listing, its
\* cursor is not followed.
ReadFirstHandleFirstPageOnly ==
    /\ pc = "handle" /\ op.name = "read_first"
    /\ IF outcome.kind = "raise"
       THEN IF retry_again(outcome, attempt, retry_exceptions)
            THEN /\ attempt' = attempt + 1
                 /\ pc' = "await"
                 /\ UNCHANGED <<req, result, served, yielded>>
            ELSE /\ result' = Propagate(outcome)
                 /\ pc' = "done"
                 /\ UNCHANGED <<req, attempt, served, yielded>>
       ELSE IF attr_resource(op.cls) \notin DOMAIN outcome.value
       THEN /\ result' = UnexpectedPayload(outcome.value)
            /\ pc' = "done"
            /\ UNCHANGED <<req, attempt, served, yielded>>
       ELSE LET json == outcome.value[attr_resource(op.cls)] IN
            /\ served' = Append(served, json)
            /\ IF json # << >>
               THEN /\ IF Valid(op.cls, json[1])
                       THEN /\ result' = Return(Decode(op.cls, json[1]))
                            /\ yielded' =
                                   Append(yielded, Decode(op.cls, json[1]))
                       ELSE /\ result' = SAPResponseError(
                                   ValidationMessage(op.cls, json[1]), json[1])
                            /\ UNCHANGED yielded
                    /\ pc' = "done"
                    /\ UNCHANGED <<req, attempt>>
               ELSE IF TRUE \/ ~Truthy(Get(outcome.value, ATTR_NEXT))
               THEN /\ result' = SAPNotFoundError(<<op.cls>>)
                    /\ pc' = "done"
                    /\ UNCHANGED <<req, attempt, yielded>>
               ELSE /\ req' = NextRequest(outcome.value)
                    /\ attempt' = 1
                    /\ pc' = "await"
                    /\ UNCHANGED <<result, yielded>>
    /\ UNCHANGED <<op, sent, returned, response, outcome, failures, items, idx>>

\* read_first, lines 430-433, over read_all, lines 372-398: retry(_request)
\* ended; the first record of the page ends the call, a page without records
\* ends it or leads to the next request.
ReadFirstHandle ==
    /\ pc = "handle" /\ op.name = "read_first"
    /\ IF outcome.kind = "raise"
       THEN IF retry_again(outcome, attempt, retry_exceptions)
            THEN /\ attempt' = attempt + 1
                 /\ pc' = "await"
                 /\ UNCHANGED <<req, result, served, yielded>>
            ELSE /\ result' = Propagate(outcome)
                 /\ pc' = "done"
                 /\ UNCHANGED <<req, attempt, served, yielded>>
       ELSE IF attr_resource(op.cls) \notin DOMAIN outcome.value
       THEN /\ result' = UnexpectedPayload(outcome.value)
            /\ pc' = "done"
            /\ UNCHANGED <<req, attempt, served, yielded>>
       ELSE LET json == outcome.value[attr_resource(op.cls)] IN
            /\ served' = Append(served, json)
            /\ IF json # << >>
               THEN /\ IF Valid(op.cls, json[1])
                       THEN /\ result' = Return(Decode(op.cls, json[1]))
                            /\ yielded' =
                                   Append(yielded, Decode(op.cls, json[1]))
                       ELSE /\ result' = SAPResponseError(
                                   ValidationMessage(op.cls, json[1]), json[1])
                            /\ UNCHANGED yielded
                    /\ pc' = "done"
                    /\ UNCHANGED <<req, attempt>>
               ELSE IF ~Truthy(Get(outcome.value, ATTR_NEXT))
               THEN /\ result' = SAPNotFoundError(<<op.cls>>)
                    /\ pc' = "done"
                    /\ UNCHANGED <<req, attempt, yielded>>
               ELSE /\ req' = NextRequest(outcome.value)
                    /\ attempt' = 1
                    /\ pc' = "await"
                    /\ UNCHANGED <<result, yielded>>
    /\ UNCHANGED <<op, sent, returned, response, outcome, failures, items, idx>>

\* The caller takes the result and is free to call again.
Finish ==
    /\ pc = "done"
    /\ pc' = "idle"
    /\ op' = NoOp
    /\ req' = NoReq
    /\ attempt' = 0
    /\ sent' = << >>
    /\ returned' = << >>
    /\ response' = NoResponse
    /\ outcome' = NoOutcome
    /\ failures' = 0
    /\ result' = NoOutcome
    /\ served' = << >>
    /\ items' = << >>
    /\ idx' = 0
    /\ yielded' = << >>

Next ==
    \/ CreateCall
    \/ UpdateCall
    \/ DeleteCall
    \/ ReadCall
    \/ Exchange
    \/ CreateHandle
    \/ UpdateHandle
    \/ DeleteHandle
    \/ ReadHandle
    \/ ReadAllCall
    \/ ReadAllStart
    \/ ReadAllHandle
    \/ ReadAllAnext
    \/ ReadFirstCall
    \/ ReadFirstHandle
    \/ ReadSeqCall
    \/ ReadSeqHandle
    \/ RunPipelineCall
    \/ RunPipelineHandle
    \/ CancelPipelineCall
    \/ CancelPipelineHandle
    \/ Finish

Spec == Init /\ [][Next]_vars

-----------------------------------------------------------------------------
(* The page size of a listing, over a whole range of requested sizes. *)

PageSizeMargin == 3     \* how far below 1 and above 100 the sizes go

\* A listing was called with any page size of the range and not yet iterated.
InitPageSize ==
    /\ pc = "gen_created"
    /\ op \in [name : {"read_all"}, cls : Classes, filters : Filters,
                order_by : OrderBys,
                page_size : (MIN_PAGE_SIZE - PageSizeMargin) ..
                            (MAX_PAGE_SIZE + PageSizeMargin)]
    /\ req = NoReq
    /\ attempt = 0
    /\ sent = << >>
    /\ returned = << >>
    /\ response = NoResponse
    /\ outcome = NoOutcome
    /\ failures = 0
    /\ result = NoOutcome
    /\ served = << >>
    /\ items = << >>
    /\ idx = 0
    /\ yielded = << >>

NextPageSize == ReadAllStart \/ Exchange

SpecPageSize == InitPageSize /\ [][NextPageSize]_vars

-----------------------------------------------------------------------------
(* Two listings of one Tenant, advanced in any interleaving.  Every variable *)
(* of a listing is a function of the listing; the tasks switch where the     *)
(* code awaits: at the HTTP exchange and at the consumer's anext.            *)

Listings == {1, 2}

MaxRecords == 3     \* how many records the server holds in each collection

ConcurrentPageSizes == {1, 2}

\* Record n of the collection; the last SalesTransaction lacks its name.
CatalogItem(cls, n) ==
    ListedItem(cls, n, ~(cls = "SalesTransaction" /\ n = MaxRecords))

\* The cursor to the records after the first `skip`, in pages of `top`.
PagedCursor(cls, top, skip) ==
    <<"/", "v2", "/", attr_resource(cls),
      "?top=", ToString(top), "&skip=", ToString(skip)>>

\* The number a token spells.
ToInt(token) == CHOOSE n \in 0..MAX_PAGE_SIZE : ToString(n) = token

\* The page of at most `top` records after the first `skip`, with a cursor
\* when records are left.
ServedPage(cls, top, skip) ==
    LET n == Min(top, MaxRecords - skip)
        body == [c \in {attr_resource(cls)}
                    |-> [i \in 1..n |-> CatalogItem(cls, skip + i)]]
    IN  IF skip + n < MaxRecords
        THEN WithNext(body, PagedCursor(cls, top, skip + n))
        ELSE body

\* The server answers a request by what the request says, whoever sent it:
\* the endpoint with `top`, or a cursor.
Answer(r) ==
    LET cls == CHOOSE c \in Classes : attr_resource(c) = r.uri[5] IN
    [transport |-> "response", status |-> 200,
     content_type |-> CONTENT_TYPE_JSON,
     body |-> IF r.uri = attr_endpoint(cls)
              THEN ServedPage(cls, r.params[ATTR_TOP], 0)
              ELSE ServedPage(cls, ToInt(r.uri[7]), ToInt(r.uri[9]))]

\* Variant: the cursor state is kept on the Tenant, one for all listings.
cursor_ownerShared(g) == 1

\* read_all, lines 358-370 and 397-398: `uri` and `params` are locals of the
\* generator, so each listing has its own.
cursor_owner(g) == g

ListingArgs ==
    [name : {"read_all"}, cls : Classes, filters : {None}, order_by : {<< >>},
     page_size : ConcurrentPageSizes]

\* Both listings were called and neither was iterated yet.
InitConcurrent ==
    /\ pc = [g \in Listings |-> "gen_created"]
    /\ op \in [Listings -> ListingArgs]
    /\ req = [g \in Listings |-> NoReq]
    /\ attempt = [g \in Listings |-> 0]
    /\ sent = [g \in Listings |-> << >>]
    /\ returned = [g \in Listings |-> << >>]
    /\ response = [g \in Listings |-> NoResponse]
    /\ outcome = [g \in Listings |-> NoOutcome]
    /\ failures = [g \in Listings |-> 0]
    /\ result = [g \in Listings |-> NoOutcome]
    /\ served = [g \in Listings |-> << >>]
    /\ items = [g \in Listings |-> << >>]
    /\ idx = [g \in Listings |-> 0]
    /\ yielded = [g \in Listings |-> << >>]

\* read_all, lines 341-378: the first anext of listing g runs its generator up
\* to the first request.
ConcurrentStart(g) ==
    /\ pc[g] = "gen_created"
    /\ req' = [req EXCEPT ![cursor_owner(g)] =
                  [method |-> "GET", uri |-> attr_endpoint(op[g].cls),
                   params |-> ReadAllParams(op[g].cls, op[g].filters,
                                            op[g].order_by, op[g].page_size),
                   json |-> << >>]]
    /\ pc' = [pc EXCEPT ![g] = "await"]
    /\ UNCHANGED <<op, attempt, sent, returned, response, outcome, failures,
                   result, served, items, idx, yielded>>

\* read_all, lines 386-398: the generator of listing g runs on from record i
\* of its page to its next yield, its next request or its end.
ConcurrentAdvance(g, its, i, body) ==
    IF i < Len(its)
    THEN IF Valid(op[g].cls, its[i + 1])
         THEN /\ yielded' = [yielded EXCEPT
                                ![g] = Append(@, Decode(op[g].cls, its[i + 1]))]
              /\ idx' = [idx EXCEPT ![g] = i + 1]
              /\ pc' = [pc EXCEPT ![g] = "gen_yielded"]
              /\ UNCHANGED <<req, result>>
         ELSE /\ result' = [result EXCEPT
                               ![g] = SAPResponseError(
                                   ValidationMessage(op[g].cls, its[i + 1]),
                                   its[i + 1])]
              /\ pc' = [pc EXCEPT ![g] = "done"]
              /\ UNCHANGED <<req, idx, yielded>>
    ELSE IF ~Truthy(Get(body, ATTR_NEXT))
    THEN /\ result' = [result EXCEPT
                          ![g] = [Return(NoValue) EXCEPT !.kind = "exhausted"]]
         /\ pc' = [pc EXCEPT ![g] = "done"]
         /\ UNCHANGED <<req, idx, yielded>>
    ELSE /\ req' = [req EXCEPT ![cursor_owner(g)] = NextRequest(body)]
         /\ pc' = [pc EXCEPT ![g] = "await"]
         /\ UNCHANGED <<result, idx, yielded>>

\* read_all, lines 372-392: the request of listing g goes out, the server
\* answers it and the generator runs to its next yield, request or end.
ConcurrentExchange(g) ==
    /\ pc[g] = "await"
    /\ LET r == req[cursor_owner(g)]
           out == Request(r.method, Answer(r))
       IN  /\ sent' = [sent EXCEPT ![g] = Append(@, r)]
           /\ outcome' = [outcome EXCEPT ![g] = out]
           /\ IF out.kind = "raise"
              THEN /\ result' = [result EXCEPT ![g] = Propagate(out)]
                   /\ pc' = [pc EXCEPT ![g] = "done"]
                   /\ UNCHANGED <<req, items, idx, yielded>>
              ELSE IF attr_resource(op[g].cls) \notin DOMAIN out.value
              THEN /\ result' = [result EXCEPT
                                    ![g] = UnexpectedPayload(out.value)]
                   /\ pc' = [pc EXCEPT ![g] = "done"]
                   /\ UNCHANGED <<req, items, idx, yielded>>
              ELSE LET json == out.value[attr_resource(op[g].cls)] IN
                   /\ items' = [items EXCEPT ![g] = json]
                   /\ ConcurrentAdvance(g, json, 0, out.value)
    /\ UNCHANGED <<op, attempt, returned, response, failures, served>>

\* The consumer of listing g asks for the next resource.
ConcurrentAnext(g) ==
    /\ pc[g] = "gen_yielded"
    /\ ConcurrentAdvance(g, items[g], idx[g], outcome[g].value)
    /\ UNCHANGED <<op, attempt, sent, returned, response, outcome, failures,
                   served, items>>

NextConcurrent ==
    \/ \E g \in Listings : ConcurrentStart(g)
    \/ \E g \in Listings : ConcurrentExchange(g)
    \/ \E g \in Listings : ConcurrentAnext(g)

SpecConcurrent == InitConcurrent /\ [][NextConcurrent]_vars

-----------------------------------------------------------------------------
(* A listing whose consumer may stop: it takes some resources and then drops *)
(* the generator instead of asking for the next one.                         *)

\* The consumer stops iterating.  The generator stays suspended where it is,
\* before its first line or at its yield, and nothing of read_all runs again.
ReadAllStop ==
    /\ pc \in {"gen_created", "gen_yielded"}
    /\ pc' = "done"
    /\ result' = [Return(NoValue) EXCEPT !.kind = "stopped"]
    /\ UNCHANGED <<op, req, attempt, sent, returned, response, outcome,
                   failures, served, items, idx, yielded>>

NextLazy ==
    \/ ReadAllCall
    \/ ReadAllStart
    \/ Exchange
    \/ ReadAllHandle
    \/ ReadAllAnext
    \/ ReadAllStop
    \/ ReadFirstCall
    \/ ReadFirstHandle
    \/ Finish

SpecLazy == Init /\ [][NextLazy]_vars

-----------------------------------------------------------------------------
(* A listing against a server that is free to supply `next` on every page,  *)
(* followed for MaxPages pages, with a consumer that keeps asking and a      *)
(* server that answers every request.                                        *)

MaxPages == 2     \* how many pages of such a listing are followed

\* A listing was called and is about to be iterated.
InitEndless ==
    /\ pc = "gen_created"
    /\ op \in [name : {"read_all"}, cls : {"MockResource"}, filters : {None},
                order_by : {<< >>}, page_size : {DEFAULT_PAGE_SIZE}]
    /\ req = NoReq
    /\ attempt = 0
    /\ sent = << >>
    /\ returned = << >>
    /\ response = NoResponse
    /\ outcome = NoOutcome
    /\ failures = 0
    /\ result = NoOutcome
    /\ served = << >>
    /\ items = << >>
    /\ idx = 0
    /\ yielded = << >>

\* The answers of a server that serves pages: status 200 and a JSON body.
Served(bodies) ==
    {[transport |-> "response", status |-> 200,
      content_type |-> CONTENT_TYPE_JSON, body |-> b] : b \in bodies}

\* _request, lines 101-139, for a page request: the exchange ends in a
\* connection failure, or in a response whose page may carry `next` however
\* many pages were served before.
EndlessExchange ==
    /\ pc = "await"
    /\ Len(returned) < MaxPages
    /\ \E x \in ConnectionFailures
                \cup Served(PageBodies(op.cls, Count(served),
                                       Len(returned) + 2, TRUE)) :
        /\ sent' = Append(sent, req)
        /\ response' = x
        /\ outcome' = Request(req.method, x)
        /\ returned' = IF Request(req.method, x).kind = "return"
                       THEN Append(returned, x.body)
                       ELSE returned
        /\ failures' = IF x.transport = "response" THEN failures ELSE failures + 1
        /\ pc' = "handle"
    /\ UNCHANGED <<op, req, attempt, result, served, items, idx, yielded>>

NextEndless ==
    \/ ReadAllStart
    \/ EndlessExchange
    \/ ReadAllHandle
    \/ ReadAllAnext

SpecEndless ==
    /\ InitEndless
    /\ [][NextEndless]_vars
    /\ WF_vars(ReadAllStart)
    /\ WF_vars(EndlessExchange)
    /\ WF_vars(ReadAllHandle)
    /\ WF_vars(ReadAllAnext)

-----------------------------------------------------------------------------
(* deploy_resource and deploy_resources_from_file (deploy.py), against a     *)
(* server that keeps the records it has created.  One specification follows *)
(* a single deploy_resource, whatever the server answers; another follows    *)
(* deploy_resources_from_file (caller 0) and its tasks, one deploy_resource  *)
(* per data row (callers 1..MaxRows), all on one Tenant.  Every variable of  *)
(* an operation is a function of the caller.  `items` is the server's        *)
(* collection (the ids it holds) and `served` its log of the ids it created, *)
(* `returned` lists, per task, how each call of the client ended, and        *)
(* `yielded` lists the tasks in the order they ended.                        *)

MaxRows == 2     \* data rows of the file

\* The deploy_resource calls in progress.
Tasks == DOMAIN pc \ {0}

\* The ids a row may hold; two rows may hold the same id.
RowIds == {<<"spamm">>, <<"bacon">>}

\* Line 101: the resource of a row, built without seq.
RowResource(id) == [cls |-> "MockResource", seq |-> None, name |-> id]

\* The seq the server gives to the record of an id.
SeqOf(id) == IF id = <<"spamm">> THEN <<"123">> ELSE <<"999">>

\* The record the server returns for an id it holds.
StoredRecord(cls, id) ==
    [k \in {attr_seq_alias(cls), "name"}
        |-> IF k = "name" THEN id ELSE SeqOf(id)]

\* A body with one element under the collection key.
OneElement(cls, e) == [k \in {attr_resource(cls)} |-> <<e>>]

JsonResponse(status, body) ==
    [transport |-> "response", status |-> status,
     content_type |-> CONTENT_TYPE_JSON, body |-> body]

\* An exchange that ends without a response.
NoAnswer ==
    [transport |-> "client_error", status |-> 0, content_type |-> NoName,
     body |-> NoBody]

\* What the server does with a create or update of the record `id` when the
\* exchange completes, given the ids it holds: the response and the ids held
\* afterwards.  A create of a new id is applied or rejected for a missing
\* value; a create of an id that is held is rejected as a duplicate; an
\* update of an id that is held is applied or found to change nothing, an
\* update of another id is rejected.
ServerAnswers(r, store) ==
    LET cls == "MockResource"
        id == r.json[1]["name"]
        kept(x) == [x |-> x, store |-> store]
    IN  IF r.method = "POST"
        THEN IF id \in store
             THEN {kept(JsonResponse(400,
                       OneElement(cls, (ATTR_ERROR :> MSG_ALREADY_EXISTS))))}
             ELSE {[x |-> JsonResponse(201,
                              OneElement(cls, StoredRecord(cls, id))),
                    store |-> store \cup {id}],
                   kept(JsonResponse(400,
                       OneElement(cls, [name |-> MSG_MISSING_FIELD])))}
        ELSE IF id \in store
             THEN {kept(JsonResponse(200,
                       OneElement(cls, StoredRecord(cls, id)))),
                   kept([transport |-> "response",
                         status |-> STATUS_NOT_MODIFIED,
                         content_type |-> NoName, body |-> NoBody])}
             ELSE {kept(JsonResponse(400,
                       OneElement(cls, (ATTR_ERROR :> MSG_OTHER))))}

\* What may happen to a request at all: besides the above, it may fail
\* before it reaches the server, the response of a create that was applied
\* may be lost, and the answer may be something that is not the collection.
DeployAnswers(r, store) ==
    ServerAnswers(r, store)
    \cup {[x |-> x, store |-> store] :
             x \in ConnectionFailures \cup {JsonResponse(200, OtherBody)}}
    \cup (IF r.method = "POST" /\ r.json[1]["name"] \notin store
          THEN {[x |-> NoAnswer, store |-> store \cup {r.json[1]["name"]}]}
          ELSE {})

\* The callers are about to run: the tasks have their resources, and
\* deploy_resources_from_file, when it is among the callers, awaits gather.
DeployInit(callers) ==
    /\ pc = [c \in callers |-> IF c = 0 THEN "await" ELSE "idle"]
    /\ \E rows \in [callers \ {0} -> RowIds] :
           op = [c \in callers |->
                    IF c = 0
                    THEN [name |-> "deploy_resources_from_file", rows |-> rows]
                    ELSE [name |-> "deploy_resource",
                          resource |-> RowResource(rows[c])]]
    /\ req = [c \in callers |-> NoReq]
    /\ attempt = [c \in callers |-> 0]
    /\ sent = [c \in callers |-> << >>]
    /\ returned = [c \in callers |-> << >>]
    /\ response = [c \in callers |-> NoResponse]
    /\ outcome = [c \in callers |-> NoOutcome]
    /\ failures = [c \in callers |-> 0]
    /\ result = [c \in callers |-> NoOutcome]
    /\ items \in SUBSET RowIds
    /\ yielded = << >>
    /\ served = << >>
    /\ idx = 0

\* deploy_resource was called with a resource.
InitDeploy == DeployInit({1})

\* Lines 95-105: the file was read, one task per row was made, and gather is
\* awaited.
InitGather == DeployInit(0..MaxRows)

\* Variant: every error of create leads to the update.
deploy_fallbackAnyError(created) == created.kind = "raise"

\* Variant: no error of create leads to the update.
deploy_fallbackNever(created) == FALSE

\* deploy_resource, line 123: `except SAPAlreadyExistsError`.
deploy_fallback(created) ==
    created.kind = "raise" /\ created.exc = "SAPAlreadyExistsError"

\* deploy_resource, lines 116-121 over create, lines 155-170: task t starts
\* and create builds its request.
DeployStart(t) ==
    /\ pc[t] = "idle"
    /\ req' = [req EXCEPT ![t] =
                  [method |-> "POST", uri |-> attr_endpoint(op[t].resource.cls),
                   params |-> NoParams,
                   json |-> <<model_dump(op[t].resource)>>]]
    /\ attempt' = [attempt EXCEPT ![t] = 1]
    /\ pc' = [pc EXCEPT ![t] = "await"]
    /\ UNCHANGED <<op, sent, returned, response, outcome, failures, result,
                   served, items, idx, yielded>>

\* _request, lines 101-139: the exchange of task t ends, and the server
\* holds what it holds after it.
Exchanged(t, a) ==
    /\ sent' = [sent EXCEPT ![t] = Append(@, req[t])]
    /\ response' = [response EXCEPT ![t] = a.x]
    /\ outcome' = [outcome EXCEPT ![t] = Request(req[t].method, a.x)]
    /\ failures' = [failures EXCEPT ![t] =
                       IF a.x.transport = "response" THEN @ ELSE @ + 1]
    /\ items' = a.store
    /\ served' = IF a.store = items THEN served
                 ELSE Append(served, req[t].json[1]["name"])
    /\ pc' = [pc EXCEPT ![t] = "handle"]
    /\ UNCHANGED <<op, req, attempt, returned, result, idx, yielded>>

\* _request, lines 101-139: the request of task t goes out and any server
\* answers it.
DeployExchange(t) ==
    /\ pc[t] = "await"
    /\ \E a \in DeployAnswers(req[t], items) : Exchanged(t, a)

\* _request, lines 101-139: the request of task t goes out and the server
\* answers it.
GatherExchange(t) ==
    /\ pc[t] = "await"
    /\ \E a \in ServerAnswers(req[t], items) : Exchanged(t, a)

\* deploy_resource, lines 116-132, over create, lines 171-201, and update,
\* lines 231-260: the call of the client ends; retry() makes it again, or
\* deploy_resource goes on to update, or it ends with what the call ended in.
DeployHandle(t) ==
    /\ pc[t] = "handle"
    /\ LET creating == req[t].method = "POST"
           ended == IF creating THEN create(op[t].resource, outcome[t])
                                ELSE update(op[t].resource, outcome[t])
       IN  /\ returned' = [returned EXCEPT ![t] =
                   Append(@, [call |-> IF creating THEN "create" ELSE "update",
                              kind |-> ended.kind,
                              exc |-> IF ended.kind = "raise" THEN ended.exc
                                                              ELSE NoName])]
           /\ IF retry_again(ended, attempt[t], {"SAPConnectionError"})
              THEN /\ attempt' = [attempt EXCEPT ![t] = @ + 1]
                   /\ pc' = [pc EXCEPT ![t] = "await"]
                   /\ UNCHANGED <<req, result, yielded>>
              ELSE IF creating /\ deploy_fallback(ended)
              THEN /\ req' = [req EXCEPT ![t] =
                         [method |-> "PUT",
                          uri |-> attr_endpoint(op[t].resource.cls),
                          params |-> NoParams,
                          json |-> <<model_dump(op[t].resource)>>]]
                   /\ attempt' = [attempt EXCEPT ![t] = 1]
                   /\ pc' = [pc EXCEPT ![t] = "await"]
                   /\ UNCHANGED <<result, yielded>>
              ELSE /\ result' = [result EXCEPT ![t] = ended]
                   /\ pc' = [pc EXCEPT ![t] = "done"]
                   /\ yielded' = Append(yielded, t)
                   /\ UNCHANGED <<req, attempt>>
    /\ UNCHANGED <<op, sent, response, outcome, failures, served, items, idx>>

\* Variant: the results are listed in the order the tasks ended.
gather_resultsCompletionOrder(ends, order) ==
    [i \in 1..Len(order) |-> ends[order[i]].value]

\* asyncio.gather(*tasks): the results, in the order of the tasks given.
gather_results(ends, order) == [i \in 1..Len(order) |-> ends[i].value]

\* deploy_resources_from_file, line 105: gather ends with the list of results
\* when every task has returned, and with the exception of the first task that
\* raised as soon as one has; the other tasks run on.
Gather ==
    /\ pc[0] = "await"
    /\ LET raised == {i \in 1..Len(yielded) : result[yielded[i]].kind = "raise"}
       IN  IF raised # {}
           THEN result' = [result EXCEPT ![0] =
                    result[yielded[CHOOSE i \in raised :
                                       \A j \in raised : i <= j]]]
           ELSE /\ Len(yielded) = Cardinality(Tasks)
                /\ result' = [result EXCEPT ![0] =
                                  Return(gather_results(result, yielded))]
    /\ pc' = [pc EXCEPT ![0] = "done"]
    /\ UNCHANGED <<op, req, attempt, sent, returned, response, outcome,
                   failures, served, items, idx, yielded>>

NextDeploy ==
    \/ \E t \in Tasks : DeployStart(t)
    \/ \E t \in Tasks : DeployExchange(t)
    \/ \E t \in Tasks : DeployHandle(t)

SpecDeploy == InitDeploy /\ [][NextDeploy]_vars

NextGather ==
    \/ \E t \in Tasks : DeployStart(t)
    \/ \E t \in Tasks : GatherExchange(t)
    \/ \E t \in Tasks : DeployHandle(t)
    \/ Gather

SpecGather == InitGather /\ [][NextGather]_vars

-----------------------------------------------------------------------------
(* deploy_xml (deploy.py), against a server that keeps the pipelines it has  *)
(* created.  `items` lists the server's pipelines in the order it created    *)
(* them, `returned` lists the Pipelines that run_pipeline and read have      *)
(* returned to deploy_xml, and `idx` counts the reads that deploy_xml began. *)

MaxPolls == 2     \* reads of the poll loop that the server is followed for

\* Lines 142-146: the job of a file.
XMLImportJob(file) ==
    [command |-> <<"XMLImport">>, xml_file_name |-> file,
     update_existing_objects |-> TRUE]

\* The seq of the k-th pipeline the server created.
RunSeq(k) == <<ToString(k)>>

\* The pipeline a GET of deploy_xml asks for: f'{endpoint}({seq})'.
RunOf(r, runs) ==
    CHOOSE k \in 1..Len(runs) : r.uri = SeqUri("Pipeline", RunSeq(k))

\* The state and the status of a pipeline: running, or done with its status.
RunStates ==
    {[state |-> "Running", status |-> "Running"],
     [state |-> "Done", status |-> "Successful"],
     [state |-> "Done", status |-> "Failed"]}

\* The record the server returns for its k-th pipeline.
RunRecord(k, run) ==
    [k2 \in {pipeline_attr_seq_alias, "command", "state", "status"}
        |-> IF k2 = pipeline_attr_seq_alias THEN RunSeq(k)
            ELSE IF k2 = "command" THEN <<"XMLImport">>
            ELSE IF k2 = "state" THEN <<run.state>>
            ELSE <<run.status>>]

\* What may happen to a request of deploy_xml, given the server's pipelines:
\* the response and the pipelines afterwards.  A submission creates a running
\* pipeline and names it, or is rejected; a read reports the pipeline as it
\* is, after it may have ended; no pipeline leaves Done.  Either request may
\* fail before it reaches the server, and the response of a submission that
\* created the pipeline may be lost.
XmlAnswers(r, runs) ==
    LET kept(x) == [x |-> x, runs |-> runs]
        running == [state |-> "Running", status |-> "Running"]
    IN  {kept(x) : x \in ConnectionFailures}
        \cup
        (IF r.method = "POST"
         THEN {[x |-> JsonResponse(200,
                       [pipelines |-> ("0" :> JsonList(<<RunSeq(Len(runs) + 1)>>))]),
                runs |-> Append(runs, running)],
               [x |-> NoAnswer, runs |-> Append(runs, running)],
               kept(JsonResponse(400,
                       [pipelines |-> ("0" :> JsonText(MSG_OTHER))]))}
         ELSE LET k == RunOf(r, runs) IN
              {[x |-> JsonResponse(200, RunRecord(k, now)),
                runs |-> [runs EXCEPT ![k] = now]] :
                  now \in IF runs[k].state = "Done" THEN {runs[k]}
                          ELSE RunStates})

\* model.Pipeline(**data): the Pipeline with its state and status.
PipelineRecord(data) ==
    [cls |-> "Pipeline", seq |-> Get(data, pipeline_attr_seq_alias),
     command |-> data["command"], state |-> data["state"][1],
     status |-> data["status"][1]]

\* read_seq, lines 459-469, for a Pipeline: what it ends with after _request
\* ended with `out`.
pipeline_read_seq(out) ==
    LET ended == read_seq("Pipeline", out) IN
    IF ended.kind = "return" THEN Return(PipelineRecord(out.value)) ELSE ended

\* Variant: the loop goes on while the status is not Successful.
deploy_pollingWhileNotSuccessful(pipeline) == pipeline.status # "Successful"

\* deploy_xml, line 152: `while result.state != PipelineState.Done`.
deploy_polling(pipeline) == pipeline.state # "Done"

\* deploy_xml was called with a file.
InitXml ==
    /\ pc = "idle"
    /\ op = [name |-> "deploy_xml", job |-> XMLImportJob(<<"plan.xml">>)]
    /\ req = NoReq
    /\ attempt = 0
    /\ sent = << >>
    /\ returned = << >>
    /\ response = NoResponse
    /\ outcome = NoOutcome
    /\ failures = 0
    /\ result = NoOutcome
    /\ served = << >>
    /\ items = << >>
    /\ idx = 0
    /\ yielded = << >>

\* The request of run_pipeline for the job, lines 514-526.
SubmitRequest(job) ==
    [method |-> "POST", uri |-> pipeline_attr_endpoint, params |-> NoParams,
     json |-> <<job>>]

\* deploy_xml, lines 142-151: retry calls run_pipeline, which builds its
\* request.
XmlStart ==
    /\ pc = "idle"
    /\ req' = SubmitRequest(op.job)
    /\ attempt' = 1
    /\ pc' = "await"
    /\ UNCHANGED <<op, sent, returned, response, outcome, failures, result,
                   served, items, idx, yielded>>

\* _request, lines 101-139: the request goes out and the exchange ends.  The
\* server is followed for MaxPolls reads of the poll loop.
XmlExchange ==
    /\ pc = "await"
    /\ idx <= MaxPolls
    /\ \E a \in XmlAnswers(req, items) :
        /\ sent' = Append(sent, req)
        /\ response' = a.x
        /\ outcome' = Request(req.method, a.x)
        /\ failures' = IF a.x.transport = "response" THEN failures
                                                       ELSE failures + 1
        /\ items' = a.runs
        /\ pc' = "handle"
    /\ UNCHANGED <<op, req, attempt, returned, result, served, idx, yielded>>

\* deploy_xml, lines 152-164, once a call of the client returned `pipeline`:
\* the loop sleeps and reads the pipeline again (read, lines 495-500), or
\* deploy_xml returns it.
XmlLoop(pipeline) ==
    /\ returned' = Append(returned, pipeline)
    /\ IF deploy_polling(pipeline)
       THEN IF ~HasSeq(pipeline)
            THEN /\ result' = SAPNotFoundError(NoIdentifier("Pipeline"))
                 /\ pc' = "done"
                 /\ UNCHANGED <<req, attempt, idx>>
            ELSE /\ req' = ReadSeqRequest("Pipeline", pipeline.seq)
                 /\ attempt' = 1
                 /\ idx' = idx + 1
                 /\ pc' = "await"
                 /\ UNCHANGED result
       ELSE /\ result' = Return(pipeline)
            /\ pc' = "done"
            /\ UNCHANGED <<req, attempt, idx>>

\* deploy_xml, lines 147-158, over run_pipeline, lines 527-554, and read: the
\* request ended.  After the submission run_pipeline goes on to read the
\* pipeline it names; a call that ended with SAPConnectionError is made again
\* by retry, run_pipeline from its submission; any other exception ends
\* deploy_xml.
XmlHandle ==
    /\ pc = "handle"
    /\ LET submitting == returned = << >>
           ended == IF req.method = "POST" THEN run_pipeline(outcome)
                                           ELSE pipeline_read_seq(outcome)
       IN  IF ended.kind = "raise"
           THEN IF retry_again(ended, attempt, {"SAPConnectionError"})
                THEN /\ attempt' = attempt + 1
                     /\ req' = IF submitting THEN SubmitRequest(op.job) ELSE req
                     /\ pc' = "await"
                     /\ UNCHANGED <<returned, result, idx>>
                ELSE /\ result' = Propagate(ended)
                     /\ pc' = "done"
                     /\ UNCHANGED <<req, attempt, returned, idx>>
           ELSE IF req.method = "POST"
           THEN /\ req' = ReadSeqRequest("Pipeline", ended.value)
                /\ pc' = "await"
                /\ UNCHANGED <<attempt, returned, result, idx>>
           ELSE XmlLoop(ended.value)
    /\ UNCHANGED <<op, sent, response, outcome, failures, served, items,
                   yielded>>

NextXml ==
    \/ XmlStart
    \/ XmlExchange
    \/ XmlHandle

SpecXml == InitXml /\ [][NextXml]_vars

-----------------------------------------------------------------------------
(* deploy_from_path (deploy.py) over a directory.  A file name is a sequence *)
(* of pieces, none of which begins another, so that names compare as their   *)
(* pieces do.  `items` is files_with_cls, `idx` the position of the loop in   *)
(* it, `sent` lists the first request of every deployment that was begun,    *)
(* `outcome` is what the last deployment ended with and `yielded` lists the  *)
(* entries of `results` in the order they were stored.                       *)

MaxFiles == 3     \* entries of the directory

\* The pieces of names, in ascending order of str comparison.
NamePieces ==
    <<".TXT", ".md", ".txt", ".xml", "01 ", "02 ", "03 ", "04 ", "05 ",
      "Credit Type", "archive", "event type", "plan", "readme">>

PieceRank(piece) == CHOOSE i \in 1..Len(NamePieces) : NamePieces[i] = piece

\* a < b on file names (str comparison).
RECURSIVE NameLess(_, _)
NameLess(a, b) ==
    IF b = << >> THEN FALSE
    ELSE IF a = << >> THEN TRUE
    ELSE IF a[1] # b[1] THEN PieceRank(a[1]) < PieceRank(b[1])
    ELSE NameLess(Tail(a), Tail(b))

\* str.lower() of a piece.
LowerPiece(piece) ==
    IF piece = ".TXT" THEN ".txt"
    ELSE IF piece = "Credit Type" THEN "credit type"
    ELSE piece

\* Lines 49-57: the type names of the patterns and their classes, in the
\* order of file_mapping; XMLImport comes last.
ResourceFileTypes ==
    <<[type |-> "credit type", cls |-> "CreditType"],
      [type |-> "earning code", cls |-> "EarningCode"],
      [type |-> "earning group", cls |-> "EarningGroup"],
      [type |-> "event type", cls |-> "EventType"],
      [type |-> "fixed value type", cls |-> "FixedValueType"],
      [type |-> "reason code", cls |-> "Reason"]>>

\* re.match(r'^[a-z0-9_.\- ]*(<type>)\.txt$', name, re.IGNORECASE): every
\* piece of the names is made of characters of the class.
MatchesResourceFile(type, name) ==
    /\ Len(name) >= 2
    /\ LowerPiece(name[Len(name)]) = ".txt"
    /\ LowerPiece(name[Len(name) - 1]) = type

\* re.match(r'^[a-z0-9_.\- ]*[a-z0-9_.\- ]+\.xml$', name, re.IGNORECASE): at
\* least one character precedes the extension.
MatchesXml(name) ==
    /\ Len(name) >= 2
    /\ LowerPiece(name[Len(name)]) = ".xml"

\* _file_cls, lines 47-62: the class of the first pattern that matches, or
\* ValueError.
_file_cls(name) ==
    LET matching == {i \in 1..Len(ResourceFileTypes) :
                        MatchesResourceFile(ResourceFileTypes[i].type, name)}
    IN  IF matching # {}
        THEN Return(ResourceFileTypes[CHOOSE i \in matching :
                                          \A j \in matching : i <= j].cls)
        ELSE IF MatchesXml(name)
        THEN Return("XMLImport")
        ELSE Raise("ValueError", <<"No known file type for ">> \o name, NoBody)

\* The entries a directory may hold: files that are known, files that are
\* not, and a directory.
DirEntries ==
    {[name |-> <<".xml">>, is_file |-> TRUE],
     [name |-> <<"01 ", "Credit Type", ".txt">>, is_file |-> TRUE],
     [name |-> <<"02 ", "plan", ".xml">>, is_file |-> TRUE],
     [name |-> <<"03 ", "archive">>, is_file |-> FALSE],
     [name |-> <<"03 ", "event type", ".TXT">>, is_file |-> TRUE],
     [name |-> <<"04 ", "plan", ".xml">>, is_file |-> TRUE],
     [name |-> <<"05 ", "readme", ".md">>, is_file |-> TRUE]}

\* Line 75: sorted(path.iterdir(), key=lambda x: x.name).
RECURSIVE SortedByName(_)
SortedByName(entries) ==
    IF entries = {} THEN << >>
    ELSE LET first == CHOOSE e \in entries :
                          \A o \in entries \ {e} : NameLess(e.name, o.name)
         IN  <<first>> \o SortedByName(entries \ {first})

\* The files with their classes, or the ValueError of the first file
\* without one.
RECURSIVE Classified(_)
Classified(files) ==
    IF files = << >> THEN Return(<< >>)
    ELSE LET cls == _file_cls(files[1].name) IN
         IF cls.kind = "raise" THEN cls
         ELSE LET rest == Classified(Tail(files)) IN
              IF rest.kind = "raise" THEN rest
              ELSE Return(<<[file |-> files[1].name, cls |-> cls.value]>>
                          \o rest.value)

\* file.is_file()
IsFile(entry) == entry.is_file

\* A file of a known type.
IsKnownFile(entry) == entry.is_file /\ _file_cls(entry.name).kind = "return"

\* Variant: a file of no known type is left out.
files_with_clsSkipUnknown(entries) ==
    Classified(SelectSeq(entries, IsKnownFile))

\* Lines 73-77: the list comprehension over the sorted entries.
files_with_cls(entries) == Classified(SelectSeq(entries, IsFile))

\* What the deployment of a file may end with: deploy_resources_from_file
\* with the resources of its rows or an exception of the client, deploy_xml
\* with a Pipeline that is Done, whatever its status, or an exception.
FileEnds(cls) ==
    IF cls = "XMLImport"
    THEN {Return([cls |-> "Pipeline", seq |-> RunSeq(1),
                  command |-> <<"XMLImport">>, state |-> "Done",
                  status |-> s]) : s \in {"Successful", "Failed"}}
         \cup {SAPConnectionError(<<"Could not connect">>)}
    ELSE {Return(<<[cls |-> cls, seq |-> SeqOf(<<"spamm">>),
                    name |-> <<"spamm">>]>>),
          SAPConnectionError(<<"Could not connect">>)}

\* Variant: the loop never stops early.
deploy_breakNever(pipeline) == FALSE

\* deploy_from_path, line 83: `if result.status != PipelineStatus.Successful`.
deploy_break(pipeline) == pipeline.status # "Successful"

\* deploy_from_path was called with a directory.
InitPath ==
    /\ pc = "idle"
    /\ \E dir \in SUBSET DirEntries :
        /\ Cardinality(dir) <= MaxFiles
        /\ op = [name |-> "deploy_from_path", dir |-> dir]
    /\ req = NoReq
    /\ attempt = 0
    /\ sent = << >>
    /\ returned = << >>
    /\ response = NoResponse
    /\ outcome = NoOutcome
    /\ failures = 0
    /\ result = NoOutcome
    /\ served = << >>
    /\ items = << >>
    /\ idx = 0
    /\ yielded = << >>

\* Lines 73-78: every file is given its class, or deploy_from_path ends with
\* the ValueError.
PathClassify ==
    /\ pc = "idle"
    /\ LET classified == files_with_cls(SortedByName(op.dir)) IN
       IF classified.kind = "raise"
       THEN /\ result' = classified
            /\ pc' = "done"
            /\ UNCHANGED <<items, idx>>
       ELSE /\ items' = classified.value
            /\ idx' = 1
            /\ pc' = "loop"
            /\ UNCHANGED result
    /\ UNCHANGED <<op, req, attempt, sent, returned, response, outcome,
                   failures, served, yielded>>

\* Lines 79-82: the loop takes the next file and awaits its deployment, which
\* sends its first request (the create of a row, or the submission).
PathDeploy ==
    /\ pc = "loop"
    /\ idx <= Len(items)
    /\ sent' = Append(sent, [method |-> "POST", file |-> items[idx].file,
                             cls |-> items[idx].cls])
    /\ pc' = "await"
    /\ UNCHANGED <<op, req, attempt, returned, response, outcome, failures,
                   result, served, items, idx, yielded>>

\* Lines 80-85: the deployment ended.  Its exception ends deploy_from_path;
\* the resources of a file are stored; a Pipeline is stored unless the loop
\* is left for its status.
PathHandle ==
    /\ pc = "await"
    /\ \E ended \in FileEnds(items[idx].cls) :
        /\ outcome' = ended
        /\ IF ended.kind = "raise"
           THEN /\ result' = ended
                /\ pc' = "done"
                /\ UNCHANGED <<idx, yielded>>
           ELSE IF items[idx].cls # "XMLImport"
           THEN /\ yielded' = Append(yielded, [file |-> items[idx].file,
                                               value |-> ended.value])
                /\ idx' = idx + 1
                /\ pc' = "loop"
                /\ UNCHANGED result
           ELSE IF deploy_break(ended.value)
           THEN /\ result' = Return(yielded)
                /\ pc' = "done"
                /\ UNCHANGED <<idx, yielded>>
           ELSE /\ yielded' = Append(yielded, [file |-> items[idx].file,
                                               value |-> <<ended.value>>])
                /\ idx' = idx + 1
                /\ pc' = "loop"
                /\ UNCHANGED result
    /\ UNCHANGED <<op, req, attempt, sent, returned, response, failures,
                   served, items>>

\* Line 86: the loop is over.
PathReturn ==
    /\ pc = "loop"
    /\ idx > Len(items)
    /\ result' = Return(yielded)
    /\ pc' = "done"
    /\ UNCHANGED <<op, req, attempt, sent, returned, response, outcome,
                   failures, served, items, idx, yielded>>

NextPath ==
    \/ PathClassify
    \/ PathDeploy
    \/ PathHandle
    \/ PathReturn

SpecPath == InitPath /\ [][NextPath]_vars

-----------------------------------------------------------------------------
(* Properties. *)

Last(s) == s[Len(s)]
Answered == response.transport = "response"
Ended(name) == pc = "done" /\ op.name = name

\* C1: delete and read of a resource whose seq is None or empty raise
\* SAPDeleteFailedError and SAPNotFoundError, each with a message that
\* contains 'no unique identifier', and no request is ever sent for them.
C1_NoIdentifierNoRequest ==
    (op.name \in {"delete", "read"}
        /\ (op.resource.seq = None \/ op.resource.seq = << >>))
    => /\ pc = "done"
       /\ sent = << >>
       /\ result.kind = "raise"
       /\ result.exc = (IF op.name = "delete" THEN "SAPDeleteFailedError"
                                              ELSE "SAPNotFoundError")
       /\ Contains(<<"no unique identifier">>, result.msg)

C1_Witness ==
    /\ Ended("read")
    /\ op.resource.seq = << >>
    /\ result.exc = "SAPNotFoundError"

\* C2: a response with status 304 makes _request raise SAPNotModifiedError
\* for every method, content type and body, and only the 304 test was
\* evaluated: neither the content type test, nor the parsing, nor the whitelist.
C2_NotModifiedFirst ==
    (Answered /\ response.status = 304)
    => /\ outcome.kind = "raise"
       /\ outcome.exc = "SAPNotModifiedError"
       /\ outcome.trace = <<"not_modified">>

C2_Witness ==
    /\ Answered /\ response.status = 304
    /\ response.content_type = "text/html"
    /\ Last(sent).method = "POST"
    /\ outcome.exc = "SAPNotModifiedError"

\* C3 as stated: a response whose content type is not 'application/json'
\* makes _request raise SAPResponseError, whatever the status.
C3_AnyStatus ==
    (Answered /\ response.content_type # "application/json")
    => outcome.kind = "raise" /\ outcome.exc = "SAPResponseError"

\* C3, amended: a response whose status is not 304 and whose content type is
\* not 'application/json' makes _request raise SAPResponseError for every
\* method, before the body is parsed and the status whitelist is evaluated.
C3_ContentTypeBeforeStatus ==
    (Answered /\ response.status # 304
        /\ response.content_type # "application/json")
    => /\ outcome.kind = "raise"
       /\ outcome.exc = "SAPResponseError"
       /\ outcome.trace = <<"not_modified", "content_type">>

C3_Witness ==
    /\ Answered /\ response.status = 500
    /\ response.content_type = "text/html"
    /\ outcome.exc = "SAPResponseError"

\* C4: for a JSON response that is not 304, _request returns the parsed body
\* as it is exactly when the status is whitelisted for the method (200 for
\* GET, PUT and DELETE; 200 or 201 for POST), and otherwise raises
\* SAPBadRequestError with that body as its data.
C4_StatusWhitelist ==
    (Answered /\ response.status # 304
        /\ response.content_type = "application/json")
    => LET method == Last(sent).method
           accepted ==
               \/ method = "POST" /\ response.status \in {200, 201}
               \/ method \in {"GET", "PUT", "DELETE"} /\ response.status = 200
       IN  IF accepted
           THEN outcome.kind = "return" /\ outcome.value = response.body
           ELSE /\ outcome.kind = "raise"
                /\ outcome.exc = "SAPBadRequestError"
                /\ outcome.data = response.body

C4_Witness ==
    /\ Answered /\ response.status = 201
    /\ response.content_type = "application/json"
    /\ Last(sent).method = "PUT"
    /\ outcome.exc = "SAPBadRequestError"
    /\ outcome.data = response.body

C6_PagesInOrder ==
    (Ended("read_all") /\ result.kind = "exhausted" /\ failures = 0)
    => /\ Len(sent) = Len(served)
       /\ \A k \in 1..Len(sent) : sent[k].method = "GET"
       /\ sent[1].uri = attr_endpoint(op.cls)
       /\ \A k \in 2..Len(sent) : sent[k].uri = <<"api">> \o Cursor(op.cls, k)
       /\ Len(yielded) = Count(served)
       /\ \A i \in 1..Len(yielded) :
            /\ yielded[i].seq = <<ToString(i)>>
            /\ \E k \in 1..Len(served) :
                 LET before == Count(SubSeq(served, 1, k - 1)) IN
                 /\ before < i /\ i <= before + Len(served[k])
                 /\ yielded[i] = Decode(op.cls, served[k][i - before])

C6_Witness ==
    /\ Ended("read_all") /\ result.kind = "exhausted" /\ failures = 0
    /\ Len(sent) = 3
    /\ Len(served[1]) = 2 /\ Len(served[2]) = 0 /\ Len(served[3]) = 1
    /\ Len(yielded) = 3

\* C7: the 'top' parameter of the first request of a listing is
\* min(max(page_size, 1), 100): 1 for page_size <= 0, 100 for page_size >= 101,
\* page_size itself in between; for SalesTransaction it is always 1.
C7_PageSizeClamp ==
    (op.name = "read_all" /\ Len(sent) >= 1)
    => sent[1].params[ATTR_TOP] =
           IF op.cls = "SalesTransaction" THEN 1
           ELSE IF op.page_size <= 0 THEN 1
           ELSE IF op.page_size >= 101 THEN 100
           ELSE op.page_size

C7_Witness ==
    /\ op.name = "read_all" /\ Len(sent) = 1
    /\ op.cls = "MockResource" /\ op.page_size = 101
    /\ sent[1].params[ATTR_TOP] = 100

\* C8: when the PUT of update is answered with status 304, update returns
\* the resource it was given, unchanged, raises nothing, and the PUT is the
\* only request it sent.
C8_UpdateNotModified ==
    (Ended("update") /\ Answered /\ response.status = 304)
    => /\ result.kind = "return"
       /\ result.value = op.resource
       /\ Len(sent) = 1
       /\ sent[1].method = "PUT"

C8_Witness ==
    /\ Ended("update") /\ Answered /\ response.status = 304
    /\ op.resource.seq = <<"123">>
    /\ result.kind = "return" /\ result.value = op.resource

\* The element carries the already-exists code in its '_ERROR_' message.
TaggedAlreadyExists(errors) ==
    /\ ATTR_ERROR \in DOMAIN errors
    /\ Contains(<<"TCMP_35004">>, errors[ATTR_ERROR])

\* The element carries the missing-field code in one of its values.
HasMissingField(errors) ==
    \E k \in DOMAIN errors : Contains(<<"TCMP_1002">>, errors[k])

\* The POST of create was rejected with a body that has the collection key.
CreateRejected ==
    /\ Ended("create")
    /\ outcome.kind = "raise" /\ outcome.exc = "SAPBadRequestError"
    /\ attr_resource(op.resource.cls) \in DOMAIN outcome.data

RejectedList == outcome.data[attr_resource(op.resource.cls)]

\* The elements of the rejected list that carry one of the two codes.
Coded ==
    {i \in 1..Len(RejectedList) :
        TaggedAlreadyExists(RejectedList[i]) \/ HasMissingField(RejectedList[i])}

First(S) == CHOOSE i \in S : \A j \in S : i <= j

\* C9: a rejected create whose list has an already-exists element (and no
\* missing-field one) raises SAPAlreadyExistsError with a message that contains
\* the code; one whose list has a missing-field element (and no already-exists
\* one) raises SAPMissingFieldError with the full map of that element; one
\* with neither code raises SAPResponseError with the raw error list.
C9_CreateClassification ==
    CreateRejected
    => LET exists == {i \in Coded : TaggedAlreadyExists(RejectedList[i])}
           missing == {i \in Coded : HasMissingField(RejectedList[i])}
       IN  /\ (exists # {} /\ missing = {})
               => /\ result.exc = "SAPAlreadyExistsError"
                  /\ Contains(<<"TCMP_35004">>, result.msg)
                  /\ result.msg = RejectedList[First(exists)][ATTR_ERROR]
           /\ (missing # {} /\ exists = {})
               => /\ result.exc = "SAPMissingFieldError"
                  /\ result.data = RejectedList[First(missing)]
           /\ Coded = {}
               => /\ result.exc = "SAPResponseError"
                  /\ result.data = RejectedList

C9_Witness ==
    /\ CreateRejected
    /\ Len(RejectedList) = 1
    /\ DOMAIN RejectedList[1] = {"name"}
    /\ HasMissingField(RejectedList[1])
    /\ result.exc = "SAPMissingFieldError"
    /\ result.data = RejectedList[1]

\* C10 as stated: whenever any element of the rejected list carries the
\* already-exists code, create raises SAPAlreadyExistsError.
C10_WholeListPriority ==
    (CreateRejected
        /\ \E i \in 1..Len(RejectedList) : TaggedAlreadyExists(RejectedList[i]))
    => result.exc = "SAPAlreadyExistsError"

\* C10, amended: the elements are inspected in list order and the first one
\* that carries either code decides; within it the already-exists code comes
\* first: create raises SAPAlreadyExistsError with its '_ERROR_' message when
\* it carries that code (whatever else it or a later element carries), and
\* SAPMissingFieldError with its map otherwise.
C10_FirstCodedElementDecides ==
    (CreateRejected /\ Coded # {})
    => LET errors == RejectedList[First(Coded)] IN
       IF TaggedAlreadyExists(errors)
       THEN /\ result.exc = "SAPAlreadyExistsError"
            /\ result.msg = errors[ATTR_ERROR]
       ELSE /\ result.exc = "SAPMissingFieldError"
            /\ result.data = errors

C10_Witness ==
    /\ CreateRejected
    /\ Len(RejectedList) = 2
    /\ HasMissingField(RejectedList[1])
    /\ ~TaggedAlreadyExists(RejectedList[1])
    /\ TaggedAlreadyExists(RejectedList[2])
    /\ result.exc = "SAPMissingFieldError"

\* The last request was answered with JSON and a status that _request
\* rejects for its method.
Rejected ==
    /\ Answered
    /\ response.status # 304
    /\ response.content_type = "application/json"
    /\ response.status \notin
           (IF Last(sent).method = "POST" THEN {200, 201} ELSE {200})

\* The last request was answered with JSON and a status that _request
\* accepts for its method.
Accepted ==
    /\ Answered
    /\ response.content_type = "application/json"
    /\ response.status \in
           (IF Last(sent).method = "POST" THEN {200, 201} ELSE {200})

\* The collection key of the resource types: the last segment of the endpoint.
CollectionKey(cls) ==
    IF cls = "SalesTransaction" THEN "salesTransactions" ELSE "eggs"

\* The body holds, under the collection key, a map that has the key s.
KeyedBySeq(body, cls, s) ==
    /\ CollectionKey(cls) \in DOMAIN body
    /\ s \in DOMAIN body[CollectionKey(cls)]

\* C11: when the DELETE of delete is rejected, a body whose collection entry
\* has the resource's seq as a key gives SAPDeleteFailedError with exactly the
\* message stored under that seq; a body without the collection key, or whose
\* collection entry lacks the seq, gives SAPResponseError.
C11_DeleteRejected ==
    (Ended("delete") /\ Rejected)
    => /\ result.kind = "raise"
       /\ IF KeyedBySeq(response.body, op.resource.cls, op.resource.seq)
          THEN /\ result.exc = "SAPDeleteFailedError"
               /\ result.msg =
                      response.body[CollectionKey(op.resource.cls)][op.resource.seq]
          ELSE result.exc = "SAPResponseError"

C11_Witness ==
    /\ Ended("delete") /\ Rejected
    /\ response.status = 400
    /\ KeyedBySeq(response.body, "MockResource", <<"123">>)
    /\ response.body["eggs"][<<"123">>] = MSG_REFERRED_BY
    /\ result.exc = "SAPDeleteFailedError"
    /\ result.msg = MSG_REFERRED_BY

\* C12: delete never returns False.  It returns True only when the DELETE was
\* answered with status 200 and a body whose collection entry has the seq as
\* a key; in every other case it raises, and a 200 body without the
\* collection key or without the seq raises SAPResponseError.
C12_DeleteTrueOrRaise ==
    Ended("delete")
    => LET deleted ==
               /\ Accepted
               /\ response.status = 200
               /\ KeyedBySeq(response.body, op.resource.cls, op.resource.seq)
       IN  /\ result.kind \in {"return", "raise"}
           /\ result.kind = "return" => (result.value = TRUE /\ deleted)
           /\ ~deleted => result.kind = "raise"
           /\ (Accepted /\ ~deleted) => result.exc = "SAPResponseError"

C12_Witness ==
    /\ Ended("delete") /\ Accepted
    /\ response.status = 200
    /\ KeyedBySeq(response.body, op.resource.cls, op.resource.seq)
    /\ result.kind = "return" /\ result.value = TRUE

\* The body holds a message under the run identifier of the pipeline.
KeyedByRun(body) == Key(op.job.seq) \in DOMAIN body

\* The rejected cancel names the run identifier with the benign code.
BenignCancel ==
    /\ Rejected
    /\ KeyedByRun(response.body)
    /\ Contains(<<"TCMP_60255">>, response.body[Key(op.job.seq)])

\* C13: when the DELETE of cancel_pipeline is rejected and the error body
\* holds, under the run identifier, a message that contains 'TCMP_60255',
\* cancel_pipeline returns True, and the DELETE is the only request it sent.
C13_CancelBenignCode ==
    (Ended("cancel_pipeline") /\ BenignCancel)
    => /\ result.kind = "return"
       /\ result.value = TRUE
       /\ Len(sent) = 1
       /\ sent[1].method = "DELETE"

C13_Witness ==
    /\ Ended("cancel_pipeline") /\ BenignCancel
    /\ response.status = 500
    /\ op.job.seq = <<"123">>
    /\ response.body["123"] = MSG_DELETE_PIPELINE
    /\ result.kind = "return" /\ result.value = TRUE

\* C14: every other rejected cancel raises SAPResponseError, whether the
\* error body has no entry under the run identifier or an entry without the
\* code; an accepted body without the run identifier raises SAPResponseError
\* too; True is returned only for a 200 body keyed by the run identifier or
\* for the benign code.
C14_CancelOtherwiseResponseError ==
    Ended("cancel_pipeline")
    => /\ (Rejected /\ ~BenignCancel)
           => (result.kind = "raise" /\ result.exc = "SAPResponseError")
       /\ (Accepted /\ ~KeyedByRun(response.body))
           => (result.kind = "raise" /\ result.exc = "SAPResponseError")
       /\ result.kind = "return"
           => /\ result.value = TRUE
              /\ \/ BenignCancel
                 \/ /\ Accepted
                    /\ response.status = 200
                    /\ KeyedByRun(response.body)

C14_Witness ==
    /\ Ended("cancel_pipeline") /\ Rejected
    /\ op.job.seq = <<"123">>
    /\ KeyedByRun(response.body)
    /\ response.body["123"] = MSG_REFERRED_BY
    /\ result.exc = "SAPResponseError"

\* The job's request was answered and run_pipeline has not gone further.
SubmissionAnswered ==
    /\ op.name = "run_pipeline"
    /\ pc \in {"handle", "done"}
    /\ Last(sent).method = "POST"

\* The body has response['pipelines']['0'].
HasIndex0(body) ==
    /\ "pipelines" \in DOMAIN body
    /\ "0" \in DOMAIN body["pipelines"]

\* response['pipelines']['0'][0] of a body that has it.
Identifier(body) ==
    LET first == body["pipelines"]["0"] IN
    IF "list" \in DOMAIN first THEN first.list[1] ELSE <<first.text[1]>>

\* C15: a run_pipeline that returns has sent exactly two requests: the POST
\* of the job to the job's endpoint, then the GET by identity of the
\* identifier at response['pipelines']['0'][0]; what it returns is the
\* Pipeline decoded from the body of that GET; and run_pipeline never sends a
\* third request.
C15_RunPipelineTwoRequests ==
    /\ op.name = "run_pipeline" => Len(sent) <= 2
    /\ (Ended("run_pipeline") /\ result.kind = "return")
       => /\ Len(sent) = 2
          /\ sent[1].method = "POST"
          /\ sent[1].uri = <<"api", "/", "v2", "/", "pipelines">>
          /\ Len(sent[1].json) = 1
          /\ sent[1].json[1]["command"] = op.job.command
          /\ Len(returned) = 2
          /\ HasIndex0(returned[1])
          /\ sent[2].method = "GET"
          /\ sent[2].uri = <<"api", "/", "v2", "/", "pipelines", "(">>
                               \o Identifier(returned[1]) \o <<")">>
          /\ returned[2] = response.body
          /\ "command" \in DOMAIN response.body
          /\ result.value.cls = "Pipeline"
          /\ result.value.command = response.body["command"]
          /\ result.value.seq =
                 (IF "pipelineRunSeq" \in DOMAIN response.body
                  THEN response.body["pipelineRunSeq"] ELSE None)

C15_Witness ==
    /\ Ended("run_pipeline") /\ result.kind = "return"
    /\ Len(sent) = 2
    /\ returned[1]["pipelines"]["0"] = [list |-> <<(<<"999">>), (<<"123">>)>>]
    /\ sent[2].uri = <<"api", "/", "v2", "/", "pipelines", "(", "999", ")">>
    /\ result.value.seq = <<"123">>

\* C16: when the POST of run_pipeline is rejected, or its accepted body lacks
\* 'pipelines' or the '0' under it, the next step of run_pipeline ends it
\* with SAPResponseError, which carries the message at '0' when a rejected
\* body has one, and no request follows the POST.
C16_SubmissionFailed ==
    [][(/\ SubmissionAnswered /\ pc = "handle"
        /\ \/ Rejected
           \/ Accepted /\ ~HasIndex0(response.body))
       => /\ pc' = "done"
          /\ sent' = sent
          /\ result'.kind = "raise"
          /\ result'.exc = "SAPResponseError"
          /\ (Rejected /\ HasIndex0(response.body)
                 /\ "text" \in DOMAIN response.body["pipelines"]["0"])
             => result'.msg = response.body["pipelines"]["0"].text]_vars

C16_Witness ==
    /\ Ended("run_pipeline") /\ SubmissionAnswered /\ Rejected
    /\ HasIndex0(response.body)
    /\ response.body["pipelines"]["0"] = [text |-> MSG_OTHER]
    /\ Len(sent) = 1
    /\ result.exc = "SAPResponseError"
    /\ result.msg = MSG_OTHER

\* The elements of the list that have a non-empty '_ERROR_' message.
Tagged(list) ==
    {i \in 1..Len(list) :
        "_ERROR_" \in DOMAIN list[i] /\ list[i]["_ERROR_"] # << >>}

\* C17: every rejected PUT of update ends in SAPResponseError, never in
\* SAPAlreadyExistsError, SAPMissingFieldError or SAPBadRequestError; when an
\* element of the body's collection list has a non-empty '_ERROR_' message,
\* the error carries the message of the first such element.
C17_UpdateRejected ==
    (Ended("update") /\ Rejected)
    => /\ result.kind = "raise"
       /\ result.exc = "SAPResponseError"
       /\ CollectionKey(op.resource.cls) \in DOMAIN response.body
          => LET list == response.body[CollectionKey(op.resource.cls)] IN
             Tagged(list) # {}
             => result.msg = list[First(Tagged(list))]["_ERROR_"]

C17_Witness ==
    /\ Ended("update") /\ Rejected
    /\ op.resource.cls = "MockResource"
    /\ "eggs" \in DOMAIN response.body
    /\ Len(response.body["eggs"]) = 2
    /\ response.body["eggs"][1] = [name |-> MSG_MISSING_FIELD]
    /\ response.body["eggs"][2] = [_ERROR_ |-> MSG_ALREADY_EXISTS]
    /\ result.exc = "SAPResponseError"
    /\ result.msg = MSG_ALREADY_EXISTS

\* C18: SAPBadRequestError is intermediate: no operation of Tenant that a
\* caller starts ends by raising it, whatever the server answers.
C18_BadRequestNeverSurfaces ==
    pc = "done"
    => ~(result.kind = "raise" /\ result.exc = "SAPBadRequestError")

\* The operation ended by raising SAPBadRequestError.
BadRequestSurfaced ==
    pc = "done" /\ result.kind = "raise" /\ result.exc = "SAPBadRequestError"

\* C18, amended: SAPBadRequestError never reaches the caller of create,
\* update, delete or cancel_pipeline, nor the caller of run_pipeline when the
\* submission is rejected; it does reach the caller, with the raw body,
\* whenever a GET is rejected: in read_seq, read, read_all, read_first and in
\* the fetch by identifier of run_pipeline.
C18_BadRequestFromRejectedGet ==
    pc = "done"
    => /\ op.name \in {"create", "update", "delete", "cancel_pipeline"}
           => ~BadRequestSurfaced
       /\ (op.name = "run_pipeline" /\ Last(sent).method = "POST")
           => ~BadRequestSurfaced
       /\ (Rejected /\ Last(sent).method = "GET")
           => (BadRequestSurfaced /\ result.data = response.body)
       /\ BadRequestSurfaced
           => /\ Rejected /\ Last(sent).method = "GET"
              /\ op.name \in {"read_seq", "read", "read_all", "read_first",
                               "run_pipeline"}

C18_Witness ==
    /\ Ended("run_pipeline")
    /\ Len(sent) = 2
    /\ Rejected /\ response.status = 500
    /\ BadRequestSurfaced
    /\ result.data = response.body

\* The kinds of exceptions.py.
Taxonomy ==
    {"SAPConnectionError", "SAPNotModifiedError", "SAPResponseError",
     "SAPBadRequestError", "SAPAlreadyExistsError", "SAPMissingFieldError",
     "SAPNotFoundError", "SAPDeleteFailedError"}

\* C19: every failure of an operation is one of the kinds of the taxonomy;
\* in particular an accepted create, update or run_pipeline body whose list
\* is empty fails with SAPResponseError.
C19_TaxonomyClosed ==
    (pc = "done" /\ result.kind = "raise")
    => /\ result.exc \in Taxonomy
       /\ (Accepted /\ op.name \in {"create", "update"}
              /\ CollectionKey(op.resource.cls) \in DOMAIN response.body
              /\ response.body[CollectionKey(op.resource.cls)] = << >>)
          => result.exc = "SAPResponseError"

\* The type whose collection the operation works on.
OpClass == IF op.name = "read_all" THEN op.cls ELSE op.resource.cls

\* C20: whenever the body of an accepted or rejected response lacks the
\* collection key (the last segment of the endpoint), create, update, delete
\* and read_all raise SAPResponseError with the 'Unexpected payload' message
\* that holds the raw body.
C20_MissingCollectionKey ==
    (/\ pc = "done"
     /\ op.name \in {"create", "update", "delete", "read_all"}
     /\ Accepted \/ Rejected
     /\ CollectionKey(OpClass) \notin DOMAIN response.body)
    => /\ result.kind = "raise"
       /\ result.exc = "SAPResponseError"
       /\ result.msg = <<"Unexpected payload. ">>
       /\ result.data = response.body

\* C20, amended: whenever an accepted body lacks the collection key, create,
\* update, delete and read_all raise SAPResponseError with the 'Unexpected
\* payload' message that holds the raw body, and so do create, update and
\* delete for a rejected body that lacks it; a rejected request of read_all
\* raises SAPBadRequestError with the raw body, whatever its keys.
C20_MissingKeyOrRejectedListing ==
    (pc = "done" /\ op.name \in {"create", "update", "delete", "read_all"})
    => /\ (/\ Accepted \/ (Rejected /\ op.name # "read_all")
           /\ CollectionKey(OpClass) \notin DOMAIN response.body)
          => /\ result.kind = "raise"
             /\ result.exc = "SAPResponseError"
             /\ result.msg = <<"Unexpected payload. ">>
             /\ result.data = response.body
       /\ (Rejected /\ op.name = "read_all")
          => /\ result.kind = "raise"
             /\ result.exc = "SAPBadRequestError"
             /\ result.data = response.body

C20_Witness ==
    /\ Ended("delete") /\ Rejected
    /\ response.body = OtherBody
    /\ result.exc = "SAPResponseError"
    /\ result.msg = <<"Unexpected payload. ">>
    /\ result.data = OtherBody

\* The record that create or update builds its result from, when there is one.
FirstRecord ==
    LET key == CollectionKey(op.resource.cls) IN
    IF key \in DOMAIN response.body /\ response.body[key] # << >>
    THEN <<response.body[key][1]>>
    ELSE << >>

\* The operation ended with SAPResponseError and a message that names the
\* field.
RaisedNaming(field) ==
    /\ result.kind = "raise"
    /\ result.exc = "SAPResponseError"
    /\ Contains(<<field>>, result.msg)

\* C21: when the record of an accepted response lacks the required field
\* 'name', create and update (first record of the list), read_seq (the body)
\* and read_all (the record the listing stopped at) raise SAPResponseError
\* with a message that names the field; no operation ever ends with the raw
\* ValidationError.
C21_ValidationFailure ==
    /\ pc = "done" => result.exc # "ValidationError"
    /\ (pc = "done" /\ op.name \in {"create", "update"} /\ Accepted
           /\ FirstRecord # << >> /\ "name" \notin DOMAIN FirstRecord[1])
       => RaisedNaming("name")
    /\ (Ended("read_seq") /\ Accepted /\ "name" \notin DOMAIN response.body)
       => RaisedNaming("name")
    /\ (Ended("read_all") /\ idx < Len(items)
           /\ "name" \notin DOMAIN items[idx + 1])
       => RaisedNaming("name")

C21_Witness ==
    /\ Ended("create") /\ Accepted
    /\ response.status = 201
    /\ response.body = [eggs |-> <<[eggSeq |-> <<"123">>]>>]
    /\ RaisedNaming("name")

\* C22 as stated: update of a resource whose seq is None fails without
\* sending any request, as delete and read do.
C22_UpdateNoSeqNoRequest ==
    (op.name \in {"update", "delete", "read"} /\ op.resource.seq = None)
    => /\ pc = "done"
       /\ sent = << >>
       /\ result.kind = "raise"

\* C22, amended: delete and read of a resource whose seq is None fail without
\* sending any request; update of such a resource sends its one PUT to the
\* collection endpoint, with a one-record body that has no seq key, and ends
\* as the answer to that PUT decides.
C22_UpdateSendsWithoutSeq ==
    /\ (op.name \in {"delete", "read"} /\ op.resource.seq = None)
       => /\ pc = "done"
          /\ sent = << >>
          /\ result.kind = "raise"
    /\ (op.name = "update" /\ op.resource.seq = None)
       => /\ pc \in {"await", "handle", "done"}
          /\ req.method = "PUT"
          /\ req.uri = attr_endpoint(op.resource.cls)
          /\ req.json = <<[name |-> op.resource.name]>>
          /\ pc = "await" => sent = << >>
          /\ pc \in {"handle", "done"} => sent = <<req>>
          /\ pc = "done" => result = update(op.resource, outcome)

C22_Witness ==
    /\ Ended("update")
    /\ op.resource.seq = None
    /\ sent = <<[method |-> "PUT", uri |-> <<"api", "/", "v2", "/", "eggs">>,
                 params |-> NoParams, json |-> <<[name |-> <<"spamm">>]>>]>>
    /\ Accepted
    /\ result.kind = "return"
    /\ result.value.seq = <<"123">>

\* The listing behind read_first came to its end without any record: every
\* page it was given is empty and the last one has no cursor.
ListingEmpty ==
    /\ Accepted
    /\ CollectionKey(op.cls) \in DOMAIN response.body
    /\ Count(served) = 0
    /\ ("next" \notin DOMAIN response.body \/ response.body["next"] = << >>)

\* C23: the first request of read_first carries top=1 for every type, filter
\* and order; read_first ends by returning a resource or by raising, never
\* with nothing; it raises SAPNotFoundError, with the type's name, exactly
\* when the listing ended without any record.
C23_ReadFirst ==
    op.name = "read_first"
    => /\ req.method = "GET"
       /\ Len(sent) >= 1 => sent[1].params["top"] = 1
       /\ pc = "done"
          => /\ result.kind \in {"return", "raise"}
             /\ result.kind = "return"
                => /\ result.value # NoValue
                   /\ result.value.cls = op.cls
             /\ ListingEmpty
                <=> (result.kind = "raise" /\ result.exc = "SAPNotFoundError")
             /\ ListingEmpty => Contains(<<op.cls>>, result.msg)

C23_Witness ==
    /\ Ended("read_first")
    /\ Len(sent) = 2
    /\ sent[1].params["top"] = 1
    /\ served = << << >>, << >> >>
    /\ ListingEmpty
    /\ result.exc = "SAPNotFoundError"

\* The query parameters a listing is expected to start with.
ExpectedKeys ==
    {"top"}
    \cup (IF op.filters # None /\ op.filters # << >> THEN {"$filter"} ELSE {})
    \cup (IF op.order_by # << >> THEN {"orderBy"} ELSE {})
    \cup (IF op.cls = "SalesTransaction" THEN {"expand"} ELSE {})

\* The request of the first page, as the arguments of the listing decide it.
FirstPageRequest(r) ==
    /\ r.method = "GET"
    /\ r.uri = attr_endpoint(op.cls)
    /\ DOMAIN r.params = ExpectedKeys
    /\ "$filter" \in DOMAIN r.params => r.params["$filter"] = op.filters
    /\ "orderBy" \in DOMAIN r.params => r.params["orderBy"] = op.order_by
    /\ "expand" \in DOMAIN r.params
       => r.params["expand"] = <<"eventType", ",", "unitType">>

\* C24: in read_all the request of the first page carries 'top' always,
\* '$filter' only when a filter is given, 'orderBy' only when order_by is not
\* empty and 'expand' only when the type declares aliased relation fields;
\* the request that follows the k-th returned page goes to 'api' + that
\* page's 'next' with an empty parameter set; a request is sent again only as
\* it was; and no request has a 'skip' parameter.
C24_ParamsOnFirstRequestOnly ==
    (op.name = "read_all" /\ Len(sent) >= 1)
    => /\ FirstPageRequest(sent[1])
       /\ \A k \in 2..Len(sent) :
            \/ sent[k] = sent[k - 1]
            \/ /\ sent[k].params = EmptyParams
               /\ \E j \in 1..Len(returned) :
                    /\ "next" \in DOMAIN returned[j]
                    /\ sent[k].uri = <<"api">> \o returned[j]["next"]
       /\ failures = 0
          => \A k \in 2..Len(sent) :
               /\ DOMAIN sent[k].params = {}
               /\ sent[k].uri = <<"api">> \o returned[k - 1]["next"]
       /\ \A k \in 1..Len(sent) : "skip" \notin DOMAIN sent[k].params

C24_Witness ==
    /\ op.name = "read_all" /\ op.cls = "SalesTransaction"
    /\ op.filters # None /\ op.order_by = << >>
    /\ failures = 0
    /\ Len(sent) = 2
    /\ DOMAIN sent[1].params = {"top", "$filter", "expand"}
    /\ DOMAIN sent[2].params = {}
    /\ sent[2].uri = <<"api">> \o returned[1]["next"]

\* The records of the pages, in server order.
RECURSIVE Flatten(_)
Flatten(pages) ==
    IF pages = << >> THEN << >> ELSE pages[1] \o Flatten(Tail(pages))

\* The positions, among the records served so far, of those that fail
\* validation.
Malformed ==
    {i \in 1..Count(served) : "name" \notin DOMAIN Flatten(served)[i]}

\* C25: read_all is fail-fast.  Once the server has given the listing a
\* record that fails validation, the first such record being number i of all
\* records served: that record is in the page fetched last and no request
\* follows that page; what was yielded is a prefix of the i - 1 records before
\* it, decoded, in server order; and the listing ends by raising
\* SAPResponseError after exactly those i - 1 records, without skipping the
\* record and without yielding any later one.
C25_FailFast ==
    (op.name = "read_all" /\ Malformed # {})
    => LET i == First(Malformed)
           all == Flatten(served)
       IN  /\ Count(served) - Len(items) < i
           /\ pc \in {"gen_yielded", "done"}
           /\ Len(returned) = Len(served)
           /\ response.body = Last(returned)
           /\ response.body[CollectionKey(op.cls)] = Last(served)
           /\ Len(yielded) < i
           /\ \A j \in 1..Len(yielded) : yielded[j] = Decode(op.cls, all[j])
           /\ pc = "done"
              => /\ Len(yielded) = i - 1
                 /\ result.kind = "raise"
                 /\ result.exc = "SAPResponseError"

C25_Witness ==
    /\ Ended("read_all")
    /\ Len(served) = 2
    /\ Len(served[1]) = 1
    /\ Len(served[2]) = 2
    /\ Malformed = {3}
    /\ "next" \in DOMAIN response.body /\ response.body["next"] # << >>
    /\ Len(sent) = 2
    /\ Len(yielded) = 2
    /\ result.exc = "SAPResponseError"

\* The page request of a listing ended by raising.
PageRequestFailed ==
    /\ pc = "handle"
    /\ op.name = "read_all"
    /\ outcome.kind = "raise"

\* C26: in read_all, a page request that raised SAPConnectionError is sent
\* again as it was, same URI and same parameters, or, when no attempt is
\* left, the error ends the listing; a page request that raised any other
\* kind (SAPResponseError, SAPBadRequestError, SAPNotModifiedError) ends the
\* listing at once with that very exception, and nothing is sent after it.
C26_RetryOnlyConnectionError ==
    [][/\ PageRequestFailed
          => /\ sent' = sent
             /\ IF outcome.exc = "SAPConnectionError"
                THEN \/ pc' = "await" /\ req' = req
                     \/ /\ pc' = "done"
                        /\ result'.kind = "raise"
                        /\ result'.exc = "SAPConnectionError"
                ELSE /\ outcome.exc \in {"SAPResponseError",
                                         "SAPBadRequestError",
                                         "SAPNotModifiedError"}
                     /\ pc' = "done"
                     /\ result'.kind = "raise"
                     /\ result'.exc = outcome.exc
                     /\ result'.msg = outcome.msg
                     /\ result'.data = outcome.data
       /\ (pc = "await" /\ op.name = "read_all" /\ attempt > 1)
          => sent' = Append(sent, Last(sent))]_vars

C26_Witness ==
    /\ Ended("read_all")
    /\ op.filters # None
    /\ failures = 1
    /\ Len(sent) = 2
    /\ sent[2] = sent[1]
    /\ "$filter" \in DOMAIN sent[2].params
    /\ response.status = 500
    /\ result.kind = "raise"
    /\ result.exc = "SAPBadRequestError"

\* The operations whose page requests go through retry().
Retried == op.name \in {"read_all", "read_first"}

\* The last n requests that were sent are one and the same request.
SameRequest(n) ==
    /\ Len(sent) >= n
    /\ \A k \in (Len(sent) - n + 1)..Len(sent) : sent[k] = Last(sent)

\* C27: retry is bounded.  A page request is never in an attempt beyond the
\* configured count; a listing that a connection error ended has made exactly
\* that many attempts of the request, all of them failed; and once the last
\* attempt has failed with SAPConnectionError the next step surfaces that
\* error to the caller instead of sending the request again.
C27_RetryBounded ==
    /\ [](Retried
          => /\ attempt <= retries
             /\ (pc = "done" /\ outcome.kind = "raise"
                    /\ outcome.exc = "SAPConnectionError")
                => /\ attempt = retries
                   /\ failures >= retries
                   /\ SameRequest(retries)
                   /\ result.kind = "raise"
                   /\ result.exc = "SAPConnectionError")
    /\ [][(/\ Retried /\ pc = "handle"
           /\ outcome.kind = "raise" /\ outcome.exc = "SAPConnectionError"
           /\ attempt = retries)
          => /\ pc' = "done"
             /\ sent' = sent
             /\ result'.exc = "SAPConnectionError"]_vars

C27_Witness ==
    /\ Ended("read_all")
    /\ Len(sent) = 3 /\ failures = 3
    /\ response.transport = "timeout"
    /\ SameRequest(3)
    /\ result.kind = "raise"
    /\ result.exc = "SAPConnectionError"
    /\ result.msg = <<"Timeout while connecting">>

\* The record that the operation is expected to send: the fields that are
\* set, under their wire names.
ExpectedRecord ==
    IF op.name = "run_pipeline"
    THEN [k \in {"command"}
                \cup (IF op.job.batch_name = None THEN {} ELSE {"batchName"})
             |-> IF k = "command" THEN op.job.command ELSE op.job.batch_name]
    ELSE [k \in {"name"}
                \cup (IF op.resource.seq = None THEN {}
                      ELSE {IF op.resource.cls = "SalesTransaction"
                            THEN "salesTransactionSeq" ELSE "eggSeq"})
             |-> IF k = "name" THEN op.resource.name ELSE op.resource.seq]

\* C28: every POST and PUT that create, update and run_pipeline send has a
\* JSON body that is a list of exactly one element, the mapping of the fields
\* of the resource or job that are set, under their wire aliases; no key of
\* it holds None.
C28_BodyShape ==
    \A k \in 1..Len(sent) :
        sent[k].method \in {"POST", "PUT"}
        => /\ op.name \in {"create", "update", "run_pipeline"}
           /\ Len(sent[k].json) = 1
           /\ sent[k].json[1] = ExpectedRecord
           /\ \A key \in DOMAIN sent[k].json[1] :
                sent[k].json[1][key] # None

C28_Witness ==
    /\ op.name = "update"
    /\ op.resource.seq = None
    /\ Len(sent) = 1
    /\ sent[1].method = "PUT"
    /\ sent[1].json = <<[name |-> <<"spamm">>]>>

\* The answer to the create or update is accepted and its envelope holds,
\* under the collection key, the very list that was sent.
Echoed ==
    /\ pc = "done"
    /\ op.name \in {"create", "update"}
    /\ Accepted
    /\ DOMAIN response.body = {CollectionKey(op.resource.cls)}
    /\ response.body[CollectionKey(op.resource.cls)] = sent[1].json

AlonePageSize(g) ==
    IF op[g].cls = "SalesTransaction" THEN 1 ELSE op[g].page_size

\* The records of its collection that it gets through: all of them, or those
\* before the malformed one.
AloneCount(g) ==
    IF op[g].cls = "SalesTransaction" THEN MaxRecords - 1 ELSE MaxRecords

\* It asks for pages up to the one that holds the last record or the
\* malformed one.
AloneRequests(g) ==
    LET size == AlonePageSize(g)
        pages == (MaxRecords + size - 1) \div size
        key == IF op[g].cls = "SalesTransaction" THEN "salesTransactions"
                                                ELSE "eggs"
    IN  [j \in 1..pages |->
            IF j = 1
            THEN [method |-> "GET", uri |-> <<"api", "/", "v2", "/", key>>,
                  params |-> IF op[g].cls = "SalesTransaction"
                             THEN [k \in {"top", "expand"} |->
                                      IF k = "top" THEN 1
                                      ELSE <<"eventType", ",", "unitType">>]
                             ELSE [k \in {"top"} |-> size],
                  json |-> << >>]
            ELSE [method |-> "GET",
                  uri |-> <<"api", "/", "v2", "/", key, "?top=", ToString(size),
                            "&skip=", ToString((j - 1) * size)>>,
                  params |-> EmptyParams, json |-> << >>]]

AloneYields(g) ==
    [n \in 1..AloneCount(g) |->
        [cls |-> op[g].cls, seq |-> <<ToString(n)>>, name |-> <<"spamm">>]]

IsPrefix(s, t) == Len(s) <= Len(t) /\ \A i \in 1..Len(s) : s[i] = t[i]

\* C30: separate listings are independent.  However the steps of two
\* listings of one Tenant are interleaved, and whatever the other listing
\* does, each listing sends the requests, URIs and parameters, and yields the
\* resources, in the order, that it sends and yields when it runs alone; and
\* it ends as it ends alone.
C30_ListingsIndependent ==
    \A g \in Listings :
        /\ IsPrefix(sent[g], AloneRequests(g))
        /\ IsPrefix(yielded[g], AloneYields(g))
        /\ pc[g] = "done"
           => /\ sent[g] = AloneRequests(g)
              /\ yielded[g] = AloneYields(g)
              /\ result[g].kind = (IF op[g].cls = "SalesTransaction"
                                   THEN "raise" ELSE "exhausted")

\* Both listings are on the same collection, with different page sizes, and
\* both are half way: one between two pages, the other between two records.
C30_Witness ==
    /\ op[1].cls = "MockResource" /\ op[2].cls = "MockResource"
    /\ op[1].page_size = 1 /\ op[2].page_size = 2
    /\ pc[1] = "await" /\ Len(sent[1]) = 2 /\ Len(yielded[1]) = 2
    /\ pc[2] = "gen_yielded" /\ Len(sent[2]) = 1 /\ Len(yielded[2]) = 1
    /\ req[1].uri # req[2].uri

\* C31: no error is silently dropped except the cancel quirk.  Whatever the
\* operation, once a request was rejected (a JSON answer whose status
\* _request does not accept for the method) the operation sends nothing more
\* and yields nothing more, and it ends by raising; the one exception is
\* cancel_pipeline whose rejection names the run with 'TCMP_60255'.
C31_NoErrorDropped ==
    /\ (pc = "done" /\ Rejected)
           => \/ result.kind = "raise"
              \/ op.name = "cancel_pipeline" /\ BenignCancel
    /\ pc \in {"await", "gen_yielded"} => ~Rejected

C31_Witness ==
    /\ Ended("run_pipeline") /\ Rejected
    /\ Len(sent) = 2
    /\ Last(sent).method = "GET"
    /\ response.status = 500
    /\ result.kind = "raise"

\* The consumer of the listing holds a resource or has stopped iterating.
ConsumerHolds ==
    /\ op.name = "read_all"
    /\ pc = "gen_yielded" \/ (pc = "done" /\ result.kind = "stopped")

\* What holds in every state of a lazy listing: while a page request is out,
\* every record of the pages received was yielded; while the consumer holds
\* its m-th resource, or has stopped after it, the last page received is the
\* one holding that resource and every request sent was a failed attempt or
\* brought one of the pages received; and a read_first whose first page has
\* a record has received that page only, by its first request.
LazyState ==
    /\ (op.name = "read_all" /\ pc \in {"await", "handle"})
           => Len(yielded) = Count(served)
    /\ ConsumerHolds
           => IF yielded = << >>
              THEN sent = << >>
              ELSE /\ served # << >>
                   /\ Count(served) - Len(Last(served)) < Len(yielded)
                   /\ Len(yielded) <= Count(served)
                   /\ Len(returned) = Len(served)
                   /\ Len(sent) = Len(served) + failures
    /\ (Ended("read_first") /\ served # << >> /\ served[1] # << >>)
           => /\ Len(returned) = 1
              /\ Len(sent) = failures + 1
              /\ \A i \in 1..Len(sent) : sent[i] = sent[1]

\* A page request of a listing is issued only while the consumer is asking
\* for a resource, and no resource is handed over in that step.
LazyStep ==
    (pc' = "await" /\ pc # "await" /\ op'.name = "read_all")
        => /\ pc \in {"gen_created", "gen_yielded", "handle"}
           /\ yielded' = yielded

\* C32: read_all is lazy.  The request for the next page is issued only
\* after every record of the pages before it was yielded and the consumer
\* asks for one more; a consumer that stops after m resources has caused no
\* request beyond the page holding the m-th; read_first sends one request
\* only when the first page has a record.
C32_Lazy == []LazyState /\ [][LazyStep]_vars

C32_Witness ==
    /\ Ended("read_all") /\ result.kind = "stopped"
    /\ Len(yielded) = 1
    /\ Len(sent) = 1
    /\ Len(served[1]) = 2
    /\ Truthy(Get(outcome.value, ATTR_NEXT))

\* The listing follows the cursor of the last page of the model's horizon:
\* it is asking for one page more than the model serves.
BeyondHorizon == pc = "await" /\ Len(returned) = MaxPages

\* Every record of the pages received was yielded and the consumer has asked
\* for one more.
PagesConsumed ==
    /\ op.name = "read_all"
    /\ returned # << >>
    /\ Len(returned) = Len(served)
    /\ Len(yielded) = Count(served)
    /\ pc # "gen_yielded"

\* The listing has ended normally only after a page without `next`; once the
\* pages received are consumed, a last page without `next` has ended the
\* listing normally, and a last page with `next`, holding records or not, was
\* followed by the request of its cursor, however many pages came before, and
\* the listing has not ended unless that request failed.
TerminationState ==
    /\ (pc = "done" /\ result.kind = "exhausted")
           => /\ returned # << >>
              /\ ~Truthy(Get(Last(returned), ATTR_NEXT))
    /\ PagesConsumed
           => IF Truthy(Get(Last(returned), ATTR_NEXT))
              THEN /\ req = NextRequest(Last(returned))
                   /\ pc = "done" => /\ result.kind = "raise"
                                     /\ Len(sent) > Len(returned) + failures
                                        \/ failures >= retries
              ELSE pc = "done" /\ result.kind = "exhausted"

\* C33: read_all ends normally exactly when it receives a page whose `next`
\* is absent or empty.  A page without records that carries `next` does not
\* end it; a listing whose cursor chain ends within the pages the model
\* serves always ends, and one that is given `next` on every page is still
\* asking for a page when the model stops serving.
C33_Termination ==
    /\ []TerminationState
    /\ (pc = "gen_created") ~> (pc = "done" \/ BeyondHorizon)

C33_Witness ==
    /\ BeyondHorizon
    /\ PagesConsumed
    /\ Last(served) = << >>
    /\ Truthy(Get(Last(returned), ATTR_NEXT))
    /\ yielded # << >>

\* Every page received before the last one was without records and carried a
\* cursor.
EmptyPrefix ==
    \A i \in 1..(Len(served) - 1) :
        served[i] = << >> /\ Truthy(Get(returned[i], "next"))

\* C34: read_first follows the cursors through pages without records.  It
\* returns the first record of the first page that has one, after one request
\* per page; it raises SAPNotFoundError only when every page was without
\* records and the last one had no cursor; a page without records that has a
\* cursor never ends it with SAPNotFoundError.
C34_ReadFirstThroughEmptyPages ==
    Ended("read_first")
    => /\ result.kind = "return"
          => /\ served # << >>
             /\ Len(returned) = Len(served)
             /\ EmptyPrefix
             /\ Last(served) # << >>
             /\ result.value.cls = op.cls
             /\ result.value.name = Last(served)[1]["name"]
             /\ Len(sent) = Len(served) + failures
       /\ (result.kind = "raise" /\ result.exc = "SAPNotFoundError")
          => /\ served # << >>
             /\ Len(returned) = Len(served)
             /\ EmptyPrefix
             /\ Last(served) = << >>
             /\ ~Truthy(Get(Last(returned), "next"))
       /\ (/\ served # << >>
           /\ Len(returned) = Len(served)
           /\ Last(served) = << >>
           /\ Truthy(Get(Last(returned), "next")))
          => /\ result.kind = "raise"
             /\ result.exc # "SAPNotFoundError"
             /\ Last(sent).uri = <<"api">> \o Last(returned)["next"]

C34_Witness ==
    /\ Ended("read_first")
    /\ result.kind = "return"
    /\ Len(served) = 2
    /\ served[1] = << >>
    /\ Len(sent) = 2
    /\ sent[2].uri = <<"api">> \o returned[1]["next"]

\* The calls of the client that task t has made and seen end, each with the
\* exception it ended in.
Calls(t) == returned[t]

\* One of the calls of task t was a create that ended in SAPAlreadyExistsError.
CreateFoundDuplicate(t) ==
    \E i \in 1..Len(Calls(t)) :
        Calls(t)[i].call = "create" /\ Calls(t)[i].exc = "SAPAlreadyExistsError"

\* C35: deploy_resource attempts create first and goes on to update if and
\* only if create ended in SAPAlreadyExistsError.  A create is repeated only
\* after a connection error; any other end of create ends deploy_resource
\* with it and no PUT is sent; once a PUT was sent no POST follows, and the
\* end of the update is the end of deploy_resource.
C35_CreateThenUpdateOnDuplicate ==
    \A t \in Tasks :
        LET h == Calls(t) IN
        /\ sent[t] # << >> => sent[t][1].method = "POST"
        /\ \A i \in 1..Len(sent[t]) : \A j \in i..Len(sent[t]) :
               sent[t][i].method = "PUT" => sent[t][j].method = "PUT"
        /\ \A i \in 1..(Len(h) - 1) :
               IF h[i].call = "create"
               THEN \/ h[i].exc = "SAPConnectionError" /\ h[i + 1].call = "create"
                    \/ h[i].exc = "SAPAlreadyExistsError" /\ h[i + 1].call = "update"
               ELSE h[i].exc = "SAPConnectionError" /\ h[i + 1].call = "update"
        /\ pc[t] # "handle"
               => (req[t].method = "PUT" <=> CreateFoundDuplicate(t))
        /\ (\E i \in 1..Len(sent[t]) : sent[t][i].method = "PUT")
               => CreateFoundDuplicate(t)
        /\ (pc[t] = "await" /\ req[t].method = "PUT"
                /\ Last(sent[t]).method = "POST")
               => /\ response[t].status = 400
                  /\ Contains(<<"TCMP_35004">>,
                              response[t].body["eggs"][1]["_ERROR_"])
        /\ pc[t] = "done"
               => /\ h # << >>
                  /\ result[t].kind = Last(h).kind
                  /\ result[t].kind = "raise" => result[t].exc = Last(h).exc
                  /\ ~(Last(h).call = "create"
                         /\ Last(h).exc = "SAPAlreadyExistsError")

C35_Witness ==
    /\ pc[1] = "done"
    /\ Len(sent[1]) = 2
    /\ sent[1][1].method = "POST"
    /\ sent[1][2].method = "PUT"
    /\ result[1].kind = "raise"
    /\ result[1].exc = "SAPResponseError"

\* The server created the record of task t in an exchange of this run, and
\* no create of the task got the answer: the response was lost.
LostCreate(t) ==
    /\ \E i \in 1..Len(served) : served[i] = op[t].resource.name
    /\ \A i \in 1..Len(Calls(t)) :
           Calls(t)[i].call = "create" => Calls(t)[i].kind = "raise"
    /\ pc[t] = "handle" => outcome[t].kind = "raise"

\* C36: deploy_resource tolerates a lost create response.  It never ends
\* with SAPAlreadyExistsError; after a create that the server applied and
\* whose response was lost it fails only by a further connection error or an
\* unexpected answer, and when it returns it has sent the PUT and returns the
\* record that the update gave; whenever it returns, the server holds the
\* record.
C36_LostCreateTolerated ==
    \A t \in Tasks :
        pc[t] = "done"
        => /\ result[t].kind = "return" => op[t].resource.name \in items
           /\ result[t].kind = "raise" => result[t].exc # "SAPAlreadyExistsError"
           /\ LostCreate(t)
              => IF result[t].kind = "return"
                 THEN /\ Last(sent[t]).method = "PUT"
                      /\ result[t].value.name = op[t].resource.name
                      /\ \/ result[t].value.seq = SeqOf(op[t].resource.name)
                         \/ /\ response[t].status = 304
                            /\ result[t].value = op[t].resource
                 ELSE result[t].exc \in {"SAPConnectionError", "SAPResponseError"}

C36_Witness ==
    /\ pc[1] = "done"
    /\ LostCreate(1)
    /\ Len(sent[1]) = 3
    /\ sent[1][1].method = "POST" /\ sent[1][2].method = "POST"
    /\ sent[1][3].method = "PUT"
    /\ Calls(1)[1].exc = "SAPConnectionError"
    /\ Calls(1)[2].exc = "SAPAlreadyExistsError"
    /\ result[1].kind = "return"
    /\ result[1].value.seq = SeqOf(op[1].resource.name)

\* What deploy_xml does after the submission: it returns only a Pipeline
\* whose state is Done, the one of its last read; no read follows a read that
\* reported Done; every pipeline it read before the last was not Done.
PollsUntilDone ==
    /\ (pc = "done" /\ result.kind = "return")
       => /\ result.value.state = "Done"
          /\ result.value = Last(returned)
          /\ Last(sent).method = "GET"
    /\ \A i \in 1..Len(returned) :
           returned[i].state = "Done" => i = Len(returned) /\ pc = "done"
    /\ idx <= Len(returned)

\* C37: deploy_xml submits the job once (the server creates one pipeline for
\* it) and then re-reads that pipeline while its state is not Done: it
\* returns only a Pipeline whose state is Done and issues no read after a
\* read that reported Done.
C37_SubmitsOncePollsUntilDone ==
    /\ Len(items) <= 1
    /\ PollsUntilDone

\* The regular files of the directory that no pattern matches.
UnknownFiles ==
    {e \in op.dir : e.is_file /\ _file_cls(e.name).kind = "raise"}

\* C38: deploy_from_path classifies every file before it deploys any.  When
\* a regular file of the directory matches no pattern, wherever it sorts, the
\* call ends with ValueError naming an unknown file, no request was sent and
\* nothing was stored; without such a file it never ends with ValueError.
C38_ClassifiedBeforeDeployed ==
    /\ (pc # "idle" /\ UnknownFiles # {})
       => /\ pc = "done"
          /\ result.kind = "raise" /\ result.exc = "ValueError"
          /\ \E e \in UnknownFiles :
                 result.msg = <<"No known file type for ">> \o e.name
          /\ sent = << >>
          /\ yielded = << >>
    /\ (pc = "done" /\ result.kind = "raise" /\ result.exc = "ValueError")
       => UnknownFiles # {}

C38_Witness ==
    /\ pc = "done"
    /\ op.dir = {[name |-> <<"01 ", "Credit Type", ".txt">>, is_file |-> TRUE],
                 [name |-> <<"05 ", "readme", ".md">>, is_file |-> TRUE]}
    /\ result.exc = "ValueError"
    /\ sent = << >>

\* The last deployment was an XML import that ended with a status other
\* than Successful.
ImportFailed ==
    /\ sent # << >>
    /\ pc \in {"loop", "done"}
    /\ Last(sent).cls = "XMLImport"
    /\ outcome.kind = "return"
    /\ outcome.value.status # "Successful"

\* C39: deploy_from_path deploys the regular files one after another in
\* ascending order of their names, each at most once, and every file but the
\* last one deployed has its entry in the results, in that order.  An XML
\* import that ends with a status other than Successful ends the call at
\* once: the call returns the results stored so far, which hold the entries
\* of all files deployed before it and none for it, and the files after it
\* were not deployed.  Without such an import and without an exception the
\* call returns an entry for every file.
C39_InOrderUntilFailedImport ==
    /\ \A i \in 1..Len(sent) : sent[i].file = items[i].file
    /\ \A i \in 1..Len(items) :
           /\ \E e \in op.dir : e.is_file /\ e.name = items[i].file
           /\ i > 1 => NameLess(items[i - 1].file, items[i].file)
    /\ pc # "idle" /\ ~(pc = "done" /\ result.kind = "raise")
       => Len(items) = Cardinality({e \in op.dir : e.is_file})
    /\ Len(yielded) \in {Len(sent) - 1, Len(sent)}
    /\ \A i \in 1..Len(yielded) : yielded[i].file = sent[i].file
    /\ ImportFailed
       => /\ pc = "done"
          /\ result = Return(yielded)
          /\ Len(yielded) = Len(sent) - 1
    /\ (pc = "done" /\ result.kind = "return" /\ ~ImportFailed)
       => /\ result.value = yielded
          /\ Len(yielded) = Len(items)
    /\ \A i \in 1..Len(yielded) :
           sent[i].cls = "XMLImport"
           => yielded[i].value[1].status = "Successful"

C39_Witness ==
    /\ pc = "done"
    /\ ImportFailed
    /\ Len(items) = 3
    /\ Len(sent) = 2
    /\ sent[1].cls = "CreditType"
    /\ result.kind = "return"
    /\ Len(result.value) = 1
    /\ result.value[1].file = <<"01 ", "Credit Type", ".txt">>

\* The resource that the last call of task t gave: the record of the server
\* for the id of its row, or the resource of the row itself when the update
\* found nothing to change.
OwnResult(t) ==
    IF response[t].status = STATUS_NOT_MODIFIED
    THEN op[t].resource
    ELSE [cls |-> op[t].resource.cls, seq |-> SeqOf(op[t].resource.name),
          name |-> op[t].resource.name]

\* C40: whatever the interleaving of the tasks and the order in which they
\* end, a list returned by deploy_resources_from_file has one result per row,
\* in row order, and the result of a row is the resource that the create or
\* the update of that row's own task returned; no request of a task carries
\* the record of another row, and the server holds the record of every row.
C40_ResultsInRowOrder ==
    /\ \A t \in Tasks : \A i \in 1..Len(sent[t]) :
           sent[t][i].json = <<model_dump(op[t].resource)>>
    /\ \A t \in Tasks :
           (pc[t] = "done" /\ result[t].kind = "return")
           => result[t].value = OwnResult(t)
    /\ (pc[0] = "done" /\ result[0].kind = "return")
       => /\ Len(result[0].value) = Cardinality(Tasks)
          /\ \A t \in Tasks :
                 /\ pc[t] = "done"
                 /\ result[0].value[t] = OwnResult(t)
                 /\ result[0].value[t].name = op[0].rows[t]
                 /\ op[0].rows[t] \in items
                 /\ Calls(t)[Len(Calls(t))].call \in {"create", "update"}

C40_Witness ==
    /\ pc[0] = "done"
    /\ result[0].kind = "return"
    /\ yielded[1] = MaxRows
    /\ op[0].rows[1] # op[0].rows[MaxRows]
    /\ Calls(1)[Len(Calls(1))].call = "update"
    /\ Calls(MaxRows)[Len(Calls(MaxRows))].call = "create"
    /\ result[0].value[1].name = op[0].rows[1]

====
